--------------------------- MODULE KnowledgeGraph ---------------------------
(***************************************************************************)
(* The Nodes of a Campaign's Knowledge Graph, with their Aspects and       *)
(* embeddings: editors that save what they loaded some time ago, proposals *)
(* a GM approves or rejects, and the workers that embed the backlog        *)
(* (internal/storage/kg_node.go, kg_node_aspect.go, kg_draft.go,           *)
(* knowledge_proposal.go, internal/embedworker/worker.go).                 *)
(*                                                                         *)
(* Every writer of a Node takes its row lock first, so a transaction is    *)
(* one step from that lock on.  An approval has read by then whom it is    *)
(* about.  A Node's name stands for its name and body; updated_at for the  *)
(* number of the transaction that wrote the row last.                      *)
(***************************************************************************)
EXTENDS Integers, FiniteSets, Sequences

CONSTANTS
  Nodes, Names, Editors, Embedders,
  Proposals, ProposalKind, Subject, \* kind, and the name it is about or adds
  Authored,       \* what a GM writes into an Aspect
  MaxAspects,     \* kgvocab.MaxAspectsPerNode
  MaxRows,        \* bound on the Aspect rows ever inserted
  MaxWrites,      \* bound on the transactions that write a Node
  MaxEmbedFails,  \* bound on failed Embed calls
  Nothing

ASSUME KnowledgeAssumption ==
  /\ {MaxAspects, MaxRows, MaxWrites, MaxEmbedFails} \subseteq Nat /\ MaxAspects # 0
  /\ ProposalKind \in [Proposals -> {"fact", "node"}] /\ Subject \in [Proposals -> Names]
  /\ Authored \notin Proposals /\ Nothing \notin Names \cup Nodes

VARIABLES
  name,       \* kg_node.name, Nothing while there is no such row
  aspects,    \* its Aspects in order, each a row id and its text
  written,    \* kg_node.updated_at
  now,        \* the time of the last such transaction
  vector,     \* the text its embedding was computed from, Nothing for NULL
  nextRow,    \* the next id of kg_node_aspect
  proposal,   \* knowledge_proposal.status, "claimed" inside the approval
  anchor,     \* the Node an approval under way has resolved
  open,       \* what an editor has loaded, Nothing if it is closed
  batch,      \* what an embedder has listed: text and updated_at per Node
  embedPc, embedFails,
  lost        \* history: rows a save removed that its editor had not loaded

nodeVars == <<name, aspects, written, now, vector, nextRow>>
knowledgeVars == <<nodeVars, proposal, anchor, open, batch, embedPc, embedFails, lost>>

Exists == {n \in Nodes : name[n] # Nothing}
Text(x, list) == [name |-> x, facts |-> [k \in DOMAIN list |-> list[k].fact]]
TextOf(n) == Text(name[n], aspects[n])
Ids(list) == {list[k].id : k \in DOMAIN list}

\* The place of a position among others.
Rank(S, k) == Cardinality({m \in S : m <= k})

\* The rows of a list that have one of these ids, in their order.
Kept(list, ids) ==
  LET at == {k \in DOMAIN list : list[k].id \in ids}
  IN  [i \in 1..Cardinality(at) |-> list[CHOOSE k \in at : Rank(at, k) = i]]

Facts == Proposals \cup {Authored}
AspectRows == [id : 1..MaxRows, fact : Facts]
Copies == [node : Nodes, known : Seq(AspectRows)]

KnowledgeTypeOK ==
  /\ name \in [Nodes -> Names \cup {Nothing}]
  /\ aspects \in [Nodes -> Seq(AspectRows)] /\ \A n \in Nodes : Len(aspects[n]) <= MaxAspects
  /\ written \in [Nodes -> 0..MaxWrites] /\ now \in 0..MaxWrites /\ nextRow \in 1..MaxRows + 1
  /\ proposal \in [Proposals -> {"pending", "claimed", "approved", "rejected"}]
  /\ anchor \in [Proposals -> Nodes \cup {Nothing}]
  /\ open \in [Editors -> Copies \cup {Nothing}]
  /\ DOMAIN vector = Nodes /\ DOMAIN batch = Embedders
  /\ \A w \in Embedders : DOMAIN batch[w] \subseteq Nodes
  /\ embedPc \in [Embedders -> {"sleeping", "writing"}]
  /\ embedFails \in 0..MaxEmbedFails

KnowledgeInit ==
  /\ name = [n \in Nodes |-> Nothing] /\ aspects = [n \in Nodes |-> <<>>]
  /\ written = [n \in Nodes |-> 0] /\ now = 0
  /\ vector = [n \in Nodes |-> Nothing] /\ nextRow = 1
  /\ proposal = [p \in Proposals |-> "pending"] /\ anchor = [p \in Proposals |-> Nothing]
  /\ open = [e \in Editors |-> Nothing] /\ batch = [w \in Embedders |-> <<>>]
  /\ embedPc = [w \in Embedders |-> "sleeping"] /\ embedFails = 0 /\ lost = {}

-----------------------------------------------------------------------------
(* Writes of a Node *)

\* updated_at = now(), in every transaction that writes the row.
Stamp(n) ==
  /\ now < MaxWrites /\ now' = now + 1
  /\ written' = [written EXCEPT ![n] = now + 1]

Reset(n) == vector' = [vector EXCEPT ![n] = Nothing]

CreateNode(n, x, list) ==
  /\ n \notin Exists /\ Stamp(n)
  /\ name' = [name EXCEPT ![n] = x] /\ aspects' = [aspects EXCEPT ![n] = list] /\ Reset(n)
  /\ nextRow + Len(list) <= MaxRows + 1 /\ nextRow' = nextRow + Len(list)

\* The GM's own entry, with an Aspect or none.
CreateNodeWithAspects(n, x) ==
  /\ \E list \in {<<>>, <<[id |-> nextRow, fact |-> Authored]>>} : CreateNode(n, x, list)
  /\ UNCHANGED <<proposal, anchor, open, batch, embedPc, embedFails, lost>>

DeleteNode(n) ==
  /\ n \in Exists
  /\ name' = [name EXCEPT ![n] = Nothing] /\ aspects' = [aspects EXCEPT ![n] = <<>>] /\ Reset(n)
  /\ written' = [written EXCEPT ![n] = 0]
  /\ UNCHANGED <<now, nextRow, proposal, anchor, open, batch, embedPc, embedFails, lost>>

\* The linked Agent was renamed while the names still matched.
RenameAgentNode(n, x) ==
  /\ n \in Exists /\ x # name[n] /\ Stamp(n)
  /\ name' = [name EXCEPT ![n] = x] /\ Reset(n)
  /\ UNCHANGED <<aspects, nextRow, proposal, anchor, open, batch, embedPc, embedFails, lost>>

\* SetNodeAgent, SetNodePortrait: no part of the embedded text.
TouchNode(n) ==
  /\ n \in Exists /\ Stamp(n)
  /\ UNCHANGED <<name, aspects, vector, nextRow, proposal, anchor, open, batch>>
  /\ UNCHANGED <<embedPc, embedFails, lost>>

-----------------------------------------------------------------------------
(* An editor *)

Load(e, n) ==
  /\ n \in Exists
  /\ open' = [open EXCEPT ![e] = [node |-> n, known |-> aspects[n]]]
  /\ UNCHANGED <<nodeVars, proposal, anchor, batch, embedPc, embedFails, lost>>

\* The list an editor sends: of the rows it knows some are dropped, and at most
\* one is added, which has no id (0) yet.
Drafts(known) ==
  {Kept(known, keep) \o new :
     keep \in SUBSET Ids(known), new \in {<<>>, <<[id |-> 0, fact |-> Authored]>>}}

\* Rows the editor had loaded and no longer sends.
Removes(known, before, sent) == (Ids(known) \cap Ids(before)) \ sent

\* Rows without an id, and those whose row is gone, are inserted afresh.
Numbered(list, existing) ==
  LET fresh == {k \in DOMAIN list : list[k].id \notin existing}
  IN  [k \in DOMAIN list |->
         IF k \in fresh THEN [list[k] EXCEPT !.id = nextRow + Rank(fresh, k) - 1] ELSE list[k]]

\* UpdateNodeWithAspects.  Rows the editor has not loaded survive behind the
\* authored list; a list that is too long refuses the whole save.  The response
\* may be lost, and the editor keep what it had loaded.
Save(e, x) ==
  /\ open[e] # Nothing /\ open[e].node \in Exists
  /\ LET n == open[e].node
         before == aspects[n]
     IN \E draft \in Drafts(open[e].known) :
       LET sent == Ids(draft) \cap Ids(before)
           removed == Removes(open[e].known, before, sent)
           survivors == Kept(before, Ids(before) \ (sent \cup removed))
           after == Numbered(draft, Ids(before)) \o survivors
           inserted == {k \in DOMAIN draft : draft[k].id \notin Ids(before)}
       IN /\ Len(after) <= MaxAspects /\ nextRow + Cardinality(inserted) <= MaxRows + 1
          /\ Stamp(n) /\ nextRow' = nextRow + Cardinality(inserted)
          /\ name' = [name EXCEPT ![n] = x] /\ aspects' = [aspects EXCEPT ![n] = after]
          /\ IF Text(x, after) = TextOf(n) THEN UNCHANGED vector ELSE Reset(n)
          /\ lost' = lost \cup ((Ids(before) \ Ids(after)) \ Ids(open[e].known))
          /\ open' \in {open, [open EXCEPT ![e].known = after]}
  /\ UNCHANGED <<proposal, anchor, batch, embedPc, embedFails>>

-----------------------------------------------------------------------------
(* Proposals *)

Named(x) == {n \in Nodes : name[n] = x}

\* The claim, and for a fact the resolution of its subject: exactly one Node of
\* that name, or the approval is refused.
ClaimProposal(p) ==
  /\ proposal[p] = "pending" /\ proposal' = [proposal EXCEPT ![p] = "claimed"]
  /\ IF ProposalKind[p] = "fact"
     THEN \E n \in Nodes : Named(Subject[p]) = {n} /\ anchor' = [anchor EXCEPT ![p] = n]
     ELSE UNCHANGED anchor
  /\ UNCHANGED <<nodeVars, open, batch, embedPc, embedFails, lost>>

Close(p, s) ==
  proposal' = [proposal EXCEPT ![p] = s] /\ anchor' = [anchor EXCEPT ![p] = Nothing]

HasRoom(n) == n \in Exists /\ Len(aspects[n]) < MaxAspects

\* applyProposedFact under the Node's lock: append, invalidate, commit.
ApplyFact(p) ==
  /\ proposal[p] = "claimed" /\ ProposalKind[p] = "fact" /\ HasRoom(anchor[p])
  /\ nextRow <= MaxRows /\ nextRow' = nextRow + 1
  /\ aspects' = [aspects EXCEPT ![anchor[p]] = Append(@, [id |-> nextRow, fact |-> p])]
  /\ Reset(anchor[p]) /\ Stamp(anchor[p]) /\ Close(p, "approved")
  /\ UNCHANGED <<name, open, batch, embedPc, embedFails, lost>>

\* applyProposedNode.
ApplyNode(p) ==
  /\ proposal[p] = "claimed" /\ ProposalKind[p] = "node"
  /\ \E n \in Nodes : CreateNode(n, Subject[p], <<>>)
  /\ Close(p, "approved")
  /\ UNCHANGED <<open, batch, embedPc, embedFails, lost>>

\* ProposalBlockedError (the Node is gone, or full), a failed statement or a crash:
\* the claim is rolled back with the rest.
Rollback(p) ==
  /\ proposal[p] = "claimed" /\ Close(p, "pending")
  /\ UNCHANGED <<nodeVars, open, batch, embedPc, embedFails, lost>>

RejectKnowledgeProposal(p) ==
  /\ proposal[p] = "pending" /\ Close(p, "rejected")
  /\ UNCHANGED <<nodeVars, open, batch, embedPc, embedFails, lost>>

-----------------------------------------------------------------------------
(* An embedder: passNodes *)

\* A mutant: the join drops the Nodes without an Aspect.
UnembeddedJoined == {n \in Exists : vector[n] = Nothing /\ aspects[n] # <<>>}

Unembedded == {n \in Exists : vector[n] = Nothing}

EmbedGoes(w, p) == embedPc' = [embedPc EXCEPT ![w] = p]

\* The texts are listed, and the provider makes a vector of each.
ListUnembeddedNodes(w) ==
  /\ embedPc[w] = "sleeping" /\ Unembedded # {} /\ EmbedGoes(w, "writing")
  /\ batch' = [batch EXCEPT ![w] =
       [n \in Unembedded |-> [text |-> TextOf(n), written |-> written[n]]]]
  /\ UNCHANGED <<nodeVars, proposal, anchor, open, embedFails, lost>>

\* The pass is abandoned: the provider failed, or a statement did.
Abandon(w) ==
  /\ embedPc[w] = "writing" /\ embedFails < MaxEmbedFails /\ EmbedGoes(w, "sleeping")
  /\ embedFails' = embedFails + 1 /\ batch' = [batch EXCEPT ![w] = <<>>]
  /\ UNCHANGED <<nodeVars, proposal, anchor, open, lost>>

\* A mutant: the row is matched by its id only.
MatchesId(w, n) == n \in Exists

\* WHERE id = $1 AND updated_at = $4
Matches(w, n) == n \in Exists /\ written[n] = batch[w][n].written

SetNodeEmbedding(w) ==
  /\ embedPc[w] = "writing"
  /\ \E n \in DOMAIN batch[w] :
       /\ IF Matches(w, n) THEN vector' = [vector EXCEPT ![n] = batch[w][n].text]
                           ELSE UNCHANGED vector
       /\ batch' = [batch EXCEPT ![w] = [m \in DOMAIN @ \ {n} |-> @[m]]]
       /\ EmbedGoes(w, IF DOMAIN batch[w] = {n} THEN "sleeping" ELSE "writing")
  /\ UNCHANGED <<name, aspects, written, now, nextRow, proposal, anchor, open, embedFails, lost>>

EmbedStep(w) == ListUnembeddedNodes(w) \/ SetNodeEmbedding(w)

KnowledgeNext ==
  \/ \E n \in Nodes :
       \/ DeleteNode(n) \/ TouchNode(n)
       \/ \E x \in Names : RenameAgentNode(n, x) \/ CreateNodeWithAspects(n, x)
       \/ \E e \in Editors : Load(e, n)
  \/ \E e \in Editors, x \in Names : Save(e, x)
  \/ \E p \in Proposals :
       \/ ClaimProposal(p) \/ ApplyFact(p) \/ ApplyNode(p) \/ Rollback(p)
       \/ RejectKnowledgeProposal(p)
  \/ \E w \in Embedders : EmbedStep(w) \/ Abandon(w)

KnowledgeSpec == KnowledgeInit /\ [][KnowledgeNext]_knowledgeVars

-----------------------------------------------------------------------------
(* What the Knowledge Graph promises *)

\* An embedding is that of the text the Node has now: no vector computed before an
\* edit, an approval or a rename is written after it (kg_node.go:487, "a v1 vector
\* on a v2 row ... would never re-embed").
VectorFresh == \A n \in Exists : vector[n] # Nothing => vector[n] = TextOf(n)

\* No save destroys an Aspect its editor never saw, however old its copy
\* (KGNodeAspectWrite: "Known bounds the delete to rows the editor actually saw").
NothingLost == lost = {}

\* Rows keep their identity, and no approval is applied twice.
AppliedOnce ==
  /\ \A n, m \in Nodes : \A k \in DOMAIN aspects[n], l \in DOMAIN aspects[m] :
       aspects[n][k].id = aspects[m][l].id => n = m /\ k = l
  /\ \A n \in Nodes : \A k \in DOMAIN aspects[n] :
       aspects[n][k].fact # Authored => proposal[aspects[n][k].fact] = "approved"

KnowledgeInv == KnowledgeTypeOK /\ VectorFresh /\ NothingLost /\ AppliedOnce

\* The backlog drains: a Node that is no longer edited gets its embedding, though
\* passes were abandoned and writes missed the row.
BacklogDrains == <>[](\A n \in Nodes : n \in Exists => vector[n] # Nothing)
=============================================================================
