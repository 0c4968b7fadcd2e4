------------------------------ MODULE MCEdges ------------------------------
(* What the web tier asks of the Voice Instances: sessions, through intents, *)
(* and Discord clients, through the settings they follow.  The two share     *)
(* nothing here, so each behaviour exercises one, its focus, while the other *)
(* keeps its initial state: no worker is up, so nothing that is fair to the  *)
(* plane can step.                                                           *)
EXTENDS IntentControl, ClaimPlaneProps, DiscordClients, TLC

CONSTANTS w1, t1, c1, r1, r2, g1, g2

OneIntent == 1..1
OneTenant == (c1 :> t1)
Homes == (r1 :> g1 @@ r2 :> g2)

VARIABLE focus

EdgesInit == focus \in {"intents", "clients"} /\ WebInit /\ ClientsInit

edgeVars == <<focus, allvars, clientVars>>

EdgesNext ==
  /\ UNCHANGED focus
  /\ \/ focus = "intents" /\ WebNext /\ UNCHANGED clientVars
     \/ focus = "clients" /\ ClientsNext /\ UNCHANGED allvars

\* The refresher comes round and reaches the database and Discord again and again; a
\* request goes on from one save to the next, and a close handler runs.
ClientsFairness ==
  /\ WF_clientVars(EnsureStep)
  /\ \A t \in Renters :
       /\ SF_clientVars(focus = "clients" /\ EnsureTenant(t))
       /\ WF_clientVars(asked[t] # NoGuild /\ SaveDiscordGuild(t))
  /\ \A c \in Gateways : WF_clientVars(Invalidate(c))

EdgesSpec ==
  /\ EdgesInit /\ [][EdgesNext]_edgeVars
  /\ WebFairness /\ ClientsFairness
-----------------------------------------------------------------------------
\* ClientsSettle of the behaviours in which there are clients to settle: Tenants come
\* to be served by living clients of their token.
DiscordSettles == focus = "clients" => ClientsSettle
=============================================================================
