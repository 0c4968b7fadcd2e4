--------------------------- MODULE DiscordClients ---------------------------
(***************************************************************************)
(* The standing Discord clients of a process (internal/presence/clients.go)*)
(* and the settings they follow (internal/rpc/provider.go, internal/       *)
(* storage/deployment.go).                                                 *)
(*                                                                         *)
(* Tenants whose Bot token is the same share one client, counted by its    *)
(* references.  EnsureTenant runs under ensureMu, across its calls to      *)
(* Discord; settings are saved and gateways die meanwhile, and invalidate, *)
(* on the gateway's own goroutine, takes only mu.                          *)
(***************************************************************************)
EXTENDS Naturals, FiniteSets

CONSTANTS
  Bots,               \* Bot tokens
  EnvBot,             \* DISCORD_BOT_TOKEN, NoBot if there is none
  Renters,            \* Tenants
  Guilds, NoBot, NoGuild,
  HomeOf,             \* the Guild each Tenant has linked, if any, at the boot
  Gateways, NoGateway, \* clients; the name of one that is gone is used again
  MaxUpsets           \* bound: settings requests, failed calls and deaths

ASSUME ClientsAssumption ==
  /\ EnvBot \in Bots \cup {NoBot} /\ NoBot \notin Bots /\ NoGuild \notin Guilds
  /\ HomeOf \in [Renters -> Guilds \cup {NoGuild}]
  /\ NoGateway \notin Gateways /\ MaxUpsets \in Nat

VARIABLES
  settings,    \* deployment_config
  asked,       \* the Guild a settings request of the Tenant is about to save
  bound,       \* Clients.tenants
  entries,     \* the keys of Clients.entries
  client, refs, registered, \* clientEntry.client, refs, registeredGuilds
  clientsClosed, \* Clients.closed
  commands,    \* the Guilds each Bot has its commands in, at Discord
  life,        \* of each client: "none", "open", "dead" (its gateway)
  dying,       \* clients whose close handler has not run yet
  unseen,      \* those whose handler ran before an entry held them
  ensure,      \* the EnsureTenant that holds ensureMu
  upsets

entryVars == <<entries, client, refs, registered>>
gatewayVars == <<life, dying, unseen>>
settingVars == <<settings, asked>>
clientVars == <<settingVars, bound, entryVars, clientsClosed, commands, gatewayVars,
                ensure, upsets>>

NoRow == [saved |-> FALSE, bot |-> NoBot, guild |-> NoGuild]
Unbound == [bot |-> NoBot, guild |-> NoGuild, failed |-> FALSE]
NoEnsure == [step |-> "none", for |-> NoBot, bot |-> NoBot, guild |-> NoGuild,
             was |-> Unbound, gateway |-> NoGateway, rebuilt |-> FALSE, todo |-> {}]

EnsureSteps == {"none", "loading", "building", "storing", "detaching", "binding",
                "clearing", "cleared", "listing", "putting", "noting"}

ClientsTypeOK ==
  /\ settings \in [Renters -> [saved : BOOLEAN, bot : Bots \cup {NoBot},
                               guild : Guilds \cup {NoGuild}]]
  /\ asked \in [Renters -> Guilds \cup {NoGuild}]
  /\ bound \in [Renters -> [bot : Bots \cup {NoBot}, guild : Guilds \cup {NoGuild},
                            failed : BOOLEAN]]
  /\ entries \subseteq Bots /\ client \in [Bots -> Gateways \cup {NoGateway}]
  /\ refs \in [Bots -> SUBSET Renters] /\ registered \in [Bots -> SUBSET Guilds]
  /\ commands \in [Bots -> SUBSET Guilds]
  /\ life \in [Gateways -> {"none", "open", "dead"}]
  /\ dying \subseteq Gateways /\ unseen \subseteq Gateways
  /\ ensure.step \in EnsureSteps /\ ensure.gateway \in Gateways \cup {NoGateway}
  /\ upsets \in 0..MaxUpsets

\* A process that boots over what was saved before: a Guild, and no token of one's own.
ClientsInit ==
  /\ settings = [t \in Renters |-> IF HomeOf[t] = NoGuild THEN NoRow
                                   ELSE [NoRow EXCEPT !.saved = TRUE, !.guild = HomeOf[t]]]
  /\ asked = [t \in Renters |-> NoGuild] /\ bound = [t \in Renters |-> Unbound]
  /\ entries = {} /\ client = [k \in Bots |-> NoGateway]
  /\ refs = [k \in Bots |-> {}] /\ registered = [k \in Bots |-> {}]
  /\ clientsClosed = FALSE /\ commands = [k \in Bots |-> {}]
  /\ life = [c \in Gateways |-> "none"] /\ dying = {} /\ unseen = {}
  /\ ensure = NoEnsure /\ upsets = 0

-----------------------------------------------------------------------------
(* The settings of a Tenant *)

Upset == upsets < MaxUpsets /\ upsets' = upsets + 1

\* SaveDiscordSettings, the proof that the saver administers the Guild behind it,
\* writes the token first, and then the Guild if the request has one.
SaveDiscordBotToken(t) ==
  /\ asked[t] = NoGuild /\ Upset
  /\ \E k \in Bots : settings' = [settings EXCEPT ![t].saved = TRUE, ![t].bot = k]
  /\ \E g \in Guilds \cup {NoGuild} : asked' = [asked EXCEPT ![t] = g]
  /\ UNCHANGED <<bound, entryVars, clientsClosed, commands, gatewayVars, ensure>>

\* deployment_config_guild_owner: the first to link a Guild keeps it.
Linkable(t, g) == \A u \in Renters \ {t} : settings[u].guild # g

\* SaveDiscordGuild, or ErrGuildTaken; the token saved before it stays.
SaveDiscordGuild(t) ==
  /\ \/ asked[t] = NoGuild /\ Upset
     \/ asked[t] # NoGuild /\ UNCHANGED upsets
  /\ asked' = [asked EXCEPT ![t] = NoGuild]
  /\ \E g \in IF asked[t] = NoGuild THEN Guilds ELSE {asked[t]} : settings' =
       IF Linkable(t, g)
       THEN [settings EXCEPT ![t].saved = TRUE, ![t].guild = g] ELSE settings
  /\ UNCHANGED <<bound, entryVars, clientsClosed, commands, gatewayVars, ensure>>

\* The echo matches the Guild that is linked, or nothing happens.
ReleaseDiscordGuild(t) ==
  /\ settings[t].guild # NoGuild /\ Upset
  /\ settings' = [settings EXCEPT ![t].guild = NoGuild]
  /\ UNCHANGED <<asked, bound, entryVars, clientsClosed, commands, gatewayVars, ensure>>

-----------------------------------------------------------------------------
(* EnsureTenant, under ensureMu *)

\* ResolveDiscordToken
BotOf(row) == IF ~row.saved THEN NoBot ELSE IF row.bot = NoBot THEN EnvBot ELSE row.bot

EnsureTo(step) == ensure' = [ensure EXCEPT !.step = step]
Serves(k) == k \in entries /\ client[k] # NoGateway

\* A save's refresher, the periodic reconcile or a borrower takes the lock and
\* reads the settings.  Without a token the Tenant waits.
EnsureTenant(t) ==
  /\ ensure.step = "none" /\ ~clientsClosed
  /\ LET k == BotOf(settings[t])
         begun == [NoEnsure EXCEPT !.for = t, !.bot = k, !.guild = settings[t].guild,
                                   !.was = bound[t]]
     IN \/ /\ k = NoBot /\ bound' = [bound EXCEPT ![t] = Unbound]
           /\ ensure' = IF bound[t].bot = NoBot THEN NoEnsure
                        ELSE [begun EXCEPT !.step = "detaching"]
        \/ /\ k # NoBot /\ UNCHANGED bound
           /\ ensure' = [begun EXCEPT !.step = IF Serves(k) THEN "loading" ELSE "building"]
  /\ UNCHANGED <<settingVars, entryVars, clientsClosed, commands, gatewayVars, upsets>>

AfterClient == IF ensure.was.bot \notin {NoBot, ensure.bot} THEN "detaching" ELSE "binding"

\* The second Load: the client may have died since the first.
LoadClient ==
  /\ ensure.step = "loading"
  /\ ensure' = IF client[ensure.bot] = NoGateway THEN NoEnsure
               ELSE [ensure EXCEPT !.gateway = client[ensure.bot], !.step = AfterClient]
  /\ UNCHANGED <<settingVars, bound, entryVars, clientsClosed, commands, gatewayVars, upsets>>

Unused == {c \in Gateways : life[c] = "none" /\ c \notin dying}

Fresh == CHOOSE c \in Unused : TRUE

\* buildOpen; what it could not open it closes.
BuildOpen ==
  /\ ensure.step = "building"
  /\ \/ /\ Unused # {} /\ life' = [life EXCEPT ![Fresh] = "open"]
        /\ ensure' = [ensure EXCEPT !.gateway = Fresh, !.rebuilt = TRUE, !.step = "storing"]
        /\ UNCHANGED <<dying, unseen, upsets>>
     \/ Upset /\ ensure' = NoEnsure /\ UNCHANGED gatewayVars
  /\ UNCHANGED <<settingVars, bound, entryVars, clientsClosed, commands>>

\* A fresh client carries no registrations.
StoreClient ==
  /\ ensure.step = "storing"
  /\ LET k == ensure.bot IN
     /\ entries' = entries \cup {k}
     /\ client' = [client EXCEPT ![k] = ensure.gateway]
     /\ refs' = [refs EXCEPT ![k] = IF k \in entries THEN @ ELSE {}]
     /\ registered' = [registered EXCEPT ![k] = {}]
  /\ EnsureTo(AfterClient)
  /\ UNCHANGED <<settingVars, bound, clientsClosed, commands, gatewayVars, upsets>>

\* Mutated: a Tenant that leaves takes the client with it.
LastOut(k, t) == TRUE

\* detachFromEntry: the last reference takes the client with it.
LastRef(k, t) == refs[k] \subseteq {t}

Gone(c) == IF c = NoGateway THEN life ELSE [life EXCEPT ![c] = "none"]

\* A Tenant that only waits is done then.
Detach ==
  /\ ensure.step = "detaching"
  /\ LET k == ensure.was.bot IN
     /\ refs' = [refs EXCEPT ![k] = @ \ {ensure.for}]
     /\ IF LastRef(k, ensure.for)
        THEN /\ entries' = entries \ {k} /\ client' = [client EXCEPT ![k] = NoGateway]
             /\ registered' = [registered EXCEPT ![k] = {}] /\ life' = Gone(client[k])
        ELSE UNCHANGED <<entries, client, registered, life>>
  /\ ensure' = IF ensure.bot = NoBot THEN NoEnsure ELSE [ensure EXCEPT !.step = "binding"]
  /\ UNCHANGED <<settingVars, bound, clientsClosed, commands, dying, unseen, upsets>>

Others(k, t) == {bound[u].guild : u \in refs[k] \ {t}} \ {NoGuild}

\* The Guild the Tenant had on the same entry, if nobody else serves it.
Leaves == IF ensure.was.bot = ensure.bot THEN {ensure.was.guild} \ {NoGuild, ensure.guild} ELSE {}
Vacated == Leaves \ Others(ensure.bot, ensure.for)

\* The reference and the Tenant's state, before a registration can fail.
Bind ==
  /\ ensure.step = "binding"
  /\ refs' = [refs EXCEPT ![ensure.bot] = @ \cup {ensure.for}]
  /\ bound' = [bound EXCEPT ![ensure.for] =
                 [bot |-> ensure.bot, guild |-> ensure.guild, failed |-> FALSE]]
  /\ EnsureTo(IF Vacated = {} THEN "listing" ELSE "clearing")
  /\ UNCHANGED <<settingVars, entries, client, registered, clientsClosed, commands,
                 gatewayVars, upsets>>

\* The PUT of no commands may fail; it is not tried again.
ClearOldGuild ==
  /\ ensure.step = "clearing" /\ EnsureTo("cleared")
  /\ \/ commands' = [commands EXCEPT ![ensure.bot] = @ \ Vacated] /\ UNCHANGED upsets
     \/ Upset /\ UNCHANGED commands
  /\ UNCHANGED <<settingVars, bound, entryVars, clientsClosed, gatewayVars>>

\* Mutated: what was cleared is not forgotten.
Everything(k) == registered[k]

\* registeredGuilds without the Guild that was cleared.
Uncleared(k) == registered[k] \ Vacated

NoteCleared ==
  /\ ensure.step = "cleared" /\ EnsureTo("listing")
  /\ registered' = [registered EXCEPT ![ensure.bot] = Uncleared(ensure.bot)]
  /\ UNCHANGED <<settingVars, bound, entries, client, refs, clientsClosed, commands,
                 gatewayVars, upsets>>

\* entryGuilds for a client that was built, else the Tenant's own Guild once.
ToPut ==
  IF ensure.rebuilt
  THEN Others(ensure.bot, ensure.for) \cup ({ensure.guild} \ {NoGuild})
  ELSE {ensure.guild} \ ({NoGuild} \cup registered[ensure.bot])

Left(todo, step) ==
  ensure' = IF todo = {} THEN NoEnsure ELSE [ensure EXCEPT !.todo = todo, !.step = step]

List ==
  /\ ensure.step = "listing" /\ Left(ToPut, "putting")
  /\ UNCHANGED <<settingVars, bound, entryVars, clientsClosed, commands, gatewayVars, upsets>>

Next1(todo) == CHOOSE g \in todo : TRUE

PutCommands ==
  /\ ensure.step = "putting"
  /\ \/ /\ commands' = [commands EXCEPT ![ensure.bot] = @ \cup {Next1(ensure.todo)}]
        /\ EnsureTo("noting") /\ UNCHANGED upsets
     \/ Upset /\ ensure' = NoEnsure /\ UNCHANGED commands
  /\ UNCHANGED <<settingVars, bound, entryVars, clientsClosed, gatewayVars>>

NotePut ==
  /\ ensure.step = "noting"
  /\ registered' = [registered EXCEPT ![ensure.bot] = @ \cup {Next1(ensure.todo)}]
  /\ Left(ensure.todo \ {Next1(ensure.todo)}, "putting")
  /\ UNCHANGED <<settingVars, bound, entries, client, refs, clientsClosed, commands,
                 gatewayVars, upsets>>

-----------------------------------------------------------------------------
(* Gateways that die, and the end *)

GatewayDies(c) ==
  /\ life[c] = "open" /\ Upset
  /\ life' = [life EXCEPT ![c] = "dead"] /\ dying' = dying \cup {c}
  /\ UNCHANGED <<settingVars, bound, entryVars, clientsClosed, commands, unseen, ensure>>

\* The entry whose standing client it is.
EntryOf(c) == {k \in entries : client[k] = c}

\* invalidate: a death of a superseded client touches nothing.
Invalidate(c) ==
  /\ c \in dying /\ dying' = dying \ {c}
  /\ IF EntryOf(c) = {}
     THEN /\ unseen' = IF life[c] = "dead" THEN unseen \cup {c} ELSE unseen
          /\ UNCHANGED <<bound, client, registered, life>>
     ELSE /\ client' = [k \in Bots |-> IF k \in EntryOf(c) THEN NoGateway ELSE client[k]]
          /\ registered' = [k \in Bots |-> IF k \in EntryOf(c) THEN {} ELSE registered[k]]
          /\ \E fatal \in BOOLEAN : bound' = [t \in Renters |->
               IF \E k \in EntryOf(c) : t \in refs[k]
               THEN [bound[t] EXCEPT !.failed = fatal \/ @] ELSE bound[t]]
          /\ life' = Gone(c) /\ UNCHANGED unseen
  /\ UNCHANGED <<settingVars, entries, refs, clientsClosed, commands, ensure, upsets>>

\* Close waits for the ensure in flight.
CloseClients ==
  /\ ensure.step = "none" /\ ~clientsClosed /\ clientsClosed' = TRUE
  /\ life' = [c \in Gateways |-> IF EntryOf(c) # {} THEN "none" ELSE life[c]]
  /\ entries' = {} /\ client' = [k \in Bots |-> NoGateway]
  /\ refs' = [k \in Bots |-> {}] /\ registered' = [k \in Bots |-> {}]
  /\ UNCHANGED <<settingVars, bound, commands, dying, unseen, ensure, upsets>>

EnsureStep ==
  \/ LoadClient \/ BuildOpen \/ StoreClient \/ Detach \/ Bind
  \/ ClearOldGuild \/ NoteCleared \/ List \/ PutCommands \/ NotePut

ClientsNext ==
  \/ \E t \in Renters :
       \/ SaveDiscordBotToken(t) \/ SaveDiscordGuild(t)
       \/ ReleaseDiscordGuild(t) \/ EnsureTenant(t)
  \/ EnsureStep \/ CloseClients
  \/ \E c \in Gateways : GatewayDies(c) \/ Invalidate(c)

ClientsSpec == ClientsInit /\ [][ClientsNext]_clientVars

-----------------------------------------------------------------------------
(* What the registry promises *)

\* Every open gateway is the client of exactly one entry, or in the hands of the
\* ensure that opened it: none leaks (#483 L7, finding 1) and no entry hands out
\* one that was closed.
NoneLeaks ==
  /\ \A c \in Gateways : life[c] # "none" =>
       Cardinality(EntryOf(c)) + (IF ensure.step = "storing" /\ ensure.gateway = c THEN 1 ELSE 0) = 1
  /\ \A k \in entries : client[k] # NoGateway => life[client[k]] # "none"

\* A Tenant counts as a reference of the entry it is bound to, of no other, and an
\* entry lives exactly as long as somebody refers to it: one Tenant's save never
\* takes another's client down (#489).
Moving(t) == ensure.for = t /\ ensure.step \in {"detaching", "binding"}
RefsAreBound ==
  ~clientsClosed => \A k \in Bots :
    /\ \A t \in Renters : ~Moving(t) => (t \in refs[k] <=> bound[t].bot = k)
    /\ refs[k] # {} => k \in entries
    /\ k \in entries => refs[k] # {} \/ (ensure.bot = k /\ ensure.step \in {"detaching", "binding"})

\* What an entry believes is registered is registered at Discord, in the middle of a
\* guild change or a rebuild as well.
BelievedIsThere ==
  \A k \in Bots : registered[k] \subseteq
    commands[k] \cup (IF ensure.step = "cleared" /\ ensure.bot = k THEN Vacated ELSE {})

\* An entry does not go on serving a dead gateway: its handler will find it, unless
\* the gateway died before the entry had it.
DeathFound == \A k \in entries :
  client[k] # NoGateway /\ life[client[k]] = "dead" => client[k] \in dying \cup unseen

ClientsInv ==
  ClientsTypeOK /\ NoneLeaks /\ RefsAreBound /\ BelievedIsThere
  /\ DeathFound

\* Once nothing is saved, fails or dies any more, every Tenant with a token is served
\* by a living client of that token, with its commands in its Guild.
Served(t) ==
  LET k == BotOf(settings[t]) IN
  k # NoBot =>
    /\ bound[t].bot = k /\ bound[t].guild = settings[t].guild /\ ~bound[t].failed
    /\ client[k] # NoGateway /\ life[client[k]] = "open"
    /\ settings[t].guild # NoGuild => settings[t].guild \in registered[k] \cap commands[k]
ClientsSettle ==
  [](~clientsClosed /\ unseen = {}) => <>[](\A t \in Renters : Served(t))
=============================================================================
