------------------------------ MODULE MemoryLayers ------------------------------
(***************************************************************************)
(* What the orchestrator remembers of one user and puts into the prompts   *)
(* of the messages it handles: three layers with their own budgets and     *)
(* lifetimes, from which a message recalls what bears on it and to which   *)
(* it adds when it is done; and the mandatory context, a file that         *)
(* overrides what is remembered.  Messages are handled concurrently: each  *)
(* reads the file, recalls, executes and only then records.                *)
(***************************************************************************)
EXTENDS Integers, Sequences, FiniteSets

CONSTANTS
  UserMessage,                       \* the messages that are handled
  Key,                               \* kind and key of what is remembered
  Value,                             \* what can be said under a key
  Saying,                            \* [UserMessage -> the update the message carries]
  Cost,                              \* [Value -> tokens of an entry with that value]
  LayerTokens, LayerTTL, LayerIdle,  \* per layer; an idle time of 0 never demotes
  PromoteHits,                       \* per layer; 0 never promotes
  MaxActive,                         \* MaxEntriesPerScope
  MaxHits,
  Budget,       \* InjectionTokenBudget
  RecallParts,  \* how many hits the active recall summarises
  MaxNow,       \* bound: the clock
  MaxEdits      \* bound: changes of the mandatory file

Layer == 1 .. 3

Update == [how : {"none", "add", "overwrite", "invalidate"}, key : Key, val : Value,
           layer : Layer, imp : BOOLEAN]

ASSUME MemoryAssumption ==
  /\ {LayerTokens, LayerTTL} \subseteq [Layer -> Nat \ {0}]
  /\ {LayerIdle, PromoteHits} \subseteq [Layer -> Nat]
  /\ Saying \in [UserMessage -> Update]
  /\ Cost \in [Value -> Nat \ {0}]
  /\ {MaxActive, MaxHits, Budget} \subseteq Nat \ {0}
  /\ {RecallParts, MaxNow, MaxEdits} \subseteq Nat

VARIABLES
  now,      \* the clock
  entries,  \* the scope's entries, whose ids are in their order
  latest,   \* the sequence the ids come from
  file,     \* the mandatory file: the value it requires of each key, and its edits
  rules,    \* the copy of it the store keeps
  doing     \* per message: how far it is

memoryVars == <<now, entries, latest, file, rules, doing>>

Free     == "free"   \* a key the file says nothing about
Required == [Key -> Value \cup {Free}]

MessageState == [pc : {"new", "read", "store", "recall", "execute", "record", "done"},
          at : Nat, raw : [rule : Required, edit : Nat]]

NoPrompt == [hits |-> {}, recall |-> {}, rule |-> [k \in Key |-> Free], used |-> 0]

NotAsked(m) == [pc |-> "new", at |-> 0, raw |-> file, prompt |-> NoPrompt]

MemoryInit == /\ now = 0 /\ entries = {} /\ latest = 0
              /\ file = [rule |-> [k \in Key |-> Free], edit |-> 0]
              /\ rules = file
              /\ doing = [m \in UserMessage |-> NotAsked(m)]

-----------------------------------------------------------------------------
(* The layers.  An entry is [id, layer, imp, key, val, st, upd, acc, hits]. *)

Active(e) == e.st = "active"

UsedAt(e) == e.upd   \* mutant: being recalled does not keep an entry
KeptAt(e) == IF e.acc > e.upd THEN e.acc ELSE e.upd

\* applyLongTermMemoryTTL
Elapsed(e, t) == /\ Active(e) /\ LayerTTL[e.layer] > 0
                 /\ KeptAt(e) + LayerTTL[e.layer] < t
Unexpired(es, t) == {e \in es : ~Elapsed(e, t)}

\* applyLongTermMemoryDemotion
Unused(e, t) == /\ Active(e) /\ LayerIdle[e.layer] > 0 /\ e.layer < 3
                /\ t - e.acc >= LayerIdle[e.layer]
Rested(e, t)   == IF Unused(e, t) THEN [e EXCEPT !.layer = @ + 1, !.hits = 0, !.upd = t] ELSE e
Demoted(es, t) == {Rested(e, t) : e \in es}

Maintained(es, t) == Demoted(Unexpired(es, t), t)

Actives(es)    == {e \in es : Active(e)}
InLayer(es, l) == {e \in Actives(es) : e.layer = l}

\* estimateLongTermMemoryEntryTokens
Tokens(es) == UNION {{e.id} \X (1 .. Cost[e.val]) : e \in es}
Spent(es)  == Cardinality(Tokens(es))

Usage(es, l) == Spent(InLayer(es, l))

\* The order of eviction from a layer: the least recently used, the first of equals.
UsedBefore(e, f) == e.acc < f.acc \/ (e.acc = f.acc /\ e.id < f.id)

\* The order of eviction from the scope at t: the lowest layer first, and in it the lowest
\* score, that is the fewest hits and then the least recent.  What was used later than t,
\* by a message received later, has no age.
Touched(e, t)  == IF e.acc > t THEN t ELSE e.acc
Below(e, f, t) ==
  \/ e.layer > f.layer
  \/ e.layer = f.layer /\ e.hits < f.hits
  \/ e.layer = f.layer /\ e.hits = f.hits /\ Touched(e, t) < Touched(f, t)
  \/ e.layer = f.layer /\ e.hits = f.hits /\ Touched(e, t) = Touched(f, t) /\ e.id < f.id

\* An entry goes if what is there when its turn comes is still too much.
Overflow(es, l) ==
  {e \in InLayer(es, l) : Spent({f \in InLayer(es, l) : ~UsedBefore(f, e)}) > LayerTokens[l]}
Surplus(es, t) ==
  {e \in Actives(es) : Cardinality({f \in Actives(es) : ~Below(f, e, t)}) > MaxActive}

LayersTrimmed(es) == es \ UNION {Overflow(es, l) : l \in Layer}
Fitted(es, t) == LayersTrimmed(es) \ Surplus(LayersTrimmed(es), t)

-----------------------------------------------------------------------------
(* Recalling. *)

Candidates(es) == Actives(es)

\* The candidates a query brings up, in the order of their layers; the scores of a
\* query order those of one layer in any way.
Orders(es) ==
  UNION {{s \in [1 .. Cardinality(c) -> c] :
            /\ \A x, y \in DOMAIN s : x # y => s[x] # s[y]
            /\ \A x, y \in DOMAIN s : x < y => s[x].layer <= s[y].layer} :
         c \in SUBSET Candidates(es)}

At(order, ns) == {order[n] : n \in ns}

\* The nth candidate fits with those picked before it.
Fits(order, ns, n) ==
  LET before == {k \in ns : k < n}
  IN  /\ Cardinality(before) < MaxHits
      /\ Spent(At(order, before)) + Cost[order[n].val] <= Budget

\* trimLongTermMemoryTierHitsByBudget: what fits, in order, and the first
\* candidate when nothing does.
Picked(order, ns) ==
  \/ ns # {} /\ \A n \in DOMAIN order : n \in ns <=> Fits(order, ns, n)
  \/ (\A n \in DOMAIN order : ~Fits(order, {}, n)) /\ ns = {n \in DOMAIN order : n = 1}

\* applyLongTermMemoryHitFeedback
Recalled(e, t) ==
  LET seen == [e EXCEPT !.acc = t, !.hits = @ + 1]
      up   == \/ e.imp /\ e.layer # 1
              \/ PromoteHits[e.layer] > 0 /\ seen.hits >= PromoteHits[e.layer]
  IN  IF up /\ e.layer # 1 THEN [seen EXCEPT !.layer = @ - 1, !.hits = 0] ELSE seen
Feedback(es, hits, t) == {IF e \in hits THEN Recalled(e, t) ELSE e : e \in es}

Told(e) == [id |-> e.id, key |-> e.key, val |-> e.val]

Conflicts(rule, told) == rule[told.key] # Free /\ rule[told.key] # told.val

\* The prompt of a message: the hits the mandatory rules leave, and the recall that
\* was made of the first hits before.
PromptOf(order, ns, rule) ==
  LET left  == {h \in {Told(e) : e \in At(order, ns)} : ~Conflicts(rule, h)}
      first == {n \in ns : Cardinality({k \in ns : k < n}) < RecallParts}
  IN  [hits   |-> left, rule |-> rule, used |-> Spent(At(order, ns)),
       recall |-> IF left = {} THEN {} ELSE {Told(e) : e \in At(order, first)}]

-----------------------------------------------------------------------------
(* A message. *)

DoingAt(m, label) == doing[m].pc = label

TimePasses == /\ now < MaxNow /\ now' = now + 1
              /\ UNCHANGED <<entries, latest, file, rules, doing>>

Edit == /\ file.edit < MaxEdits
        /\ \E k \in Key, v \in Value \cup {Free} :
             file' = [rule |-> [file.rule EXCEPT ![k] = v], edit |-> file.edit + 1]
        /\ UNCHANGED <<now, entries, latest, rules, doing>>

Arrive(m) == /\ DoingAt(m, "new")
             /\ doing' = [doing EXCEPT ![m].pc = "read", ![m].at = now]
             /\ UNCHANGED <<now, entries, latest, file, rules>>

\* refresh reads the file before it takes the lock.
ReadFile(m) == /\ DoingAt(m, "read")
               /\ doing' = [doing EXCEPT ![m].pc = "store", ![m].raw = file]
               /\ UNCHANGED <<now, entries, latest, file, rules>>

StoreFile(m) == /\ DoingAt(m, "store")
                /\ rules' = doing[m].raw
                /\ doing' = [doing EXCEPT ![m].pc = "recall"]
                /\ UNCHANGED <<now, entries, latest, file>>

\* longTerm.Snapshot, at the time the message was received.
Recall(m) ==
  /\ DoingAt(m, "recall")
  /\ LET es == Maintained(entries, doing[m].at)
     IN  \E order \in Orders(es) : \E ns \in SUBSET DOMAIN order :
           /\ Picked(order, ns)
           /\ entries' = Fitted(Feedback(es, At(order, ns), doing[m].at), doing[m].at)
           /\ doing' = [doing EXCEPT ![m].pc = "execute",
                                     ![m].prompt = PromptOf(order, ns, rules.rule)]
  /\ UNCHANGED <<now, latest, file, rules>>

Execute(m) == /\ DoingAt(m, "execute")
              /\ \E next \in {"record", "done"} : doing' = [doing EXCEPT ![m].pc = next]
              /\ UNCHANGED <<now, entries, latest, file, rules>>

TakenBack(es, key, t) ==
  {IF Active(e) /\ e.key = key THEN [e EXCEPT !.st = "invalidated", !.upd = t] ELSE e : e \in es}

NextId    == latest + 1

\* applyLongTermMemoryUpdate: what is important goes to the first layer.
Refreshed(es, u, t) ==
  LET old == IF u.how = "add" THEN es ELSE TakenBack(es, u.key, t)
  IN  IF u.how = "invalidate" THEN old
      ELSE old \cup {[id |-> NextId, layer |-> IF u.imp THEN 1 ELSE u.layer,
                      imp |-> u.imp, key |-> u.key, val |-> u.val, st |-> "active",
                      upd |-> t, acc |-> t, hits |-> 0]}

Remember(m) ==
  /\ DoingAt(m, "record")
  /\ LET u == Saying[m]
         t == doing[m].at
     IN  /\ entries' = IF u.how = "none" THEN entries
                       ELSE Fitted(Refreshed(Maintained(entries, t), u, t), t)
         /\ latest' = IF u.how \in {"add", "overwrite"} THEN latest + 1 ELSE latest
  /\ doing' = [doing EXCEPT ![m].pc = "done"]
  /\ UNCHANGED <<now, file, rules>>

MemoryNext == \/ TimePasses \/ Edit
              \/ \E m \in UserMessage : \/ Arrive(m) \/ ReadFile(m) \/ StoreFile(m) \/ Recall(m)
                                        \/ Execute(m) \/ Remember(m)

MemorySpec == MemoryInit /\ [][MemoryNext]_memoryVars

-----------------------------------------------------------------------------
(* Properties. *)

Entry == [id : Nat \ {0}, layer : Layer, imp : BOOLEAN, key : Key, val : Value,
          st : {"active", "invalidated"}, upd : Nat, acc : Nat, hits : Nat]

\* Every variable has its type; ids are given once, and nothing is dated in the future.
MemoryTypeOK ==
  /\ now \in 0 .. MaxNow /\ latest \in Nat
  /\ entries \subseteq Entry
  /\ \A e \in entries : /\ e.id <= latest /\ e.upd <= now /\ e.acc <= now
                        /\ \A f \in entries : f.id = e.id => f = e
  /\ \A m \in UserMessage : [pc |-> doing[m].pc, at |-> doing[m].at, raw |-> doing[m].raw] \in MessageState
  /\ rules.rule \in Required /\ rules.edit <= file.edit

\* No layer is over its budget and the scope not over its number of entries, also
\* after recalls have promoted entries into a layer that was full.
LayersFit == /\ \A l \in Layer : Usage(entries, l) <= LayerTokens[l]
             /\ Cardinality(Actives(entries)) <= MaxActive

\* An entry that is still active is only forgotten when it was neither written nor
\* recalled for its lifetime, or to make room: the scope is full, or in its layer or
\* one next to it something that went with it, or what was said just then, does not
\* fit into what is left.
Gone == {e \in entries : Active(e) /\ \A f \in entries' : f.id # e.id}
JustSaid == {m \in UserMessage : DoingAt(m, "record") /\ doing'[m].pc = "done"}
Displaced == {e.val : e \in Gone} \cup {Saying[m].val : m \in JustSaid}
NothingLostWithoutNeed ==
  [][\A e \in Gone : \/ (IF e.acc > e.upd THEN e.acc ELSE e.upd) + LayerTTL[e.layer] < now
                     \/ Cardinality(Actives(entries')) >= MaxActive
                     \/ \E l \in Layer, v \in Displaced :
                          /\ e.layer - l \in -1 .. 1
                          /\ Usage(entries', l) + Cost[v] > LayerTokens[l]]_memoryVars

\* What was overwritten or taken back is in no prompt that is built later, however
\* the messages overlap.
ForgottenStaysOut ==
  [][\A m \in UserMessage : doing'[m].prompt # doing[m].prompt =>
       \A e \in entries : e.st = "invalidated" =>
         \A h \in doing'[m].prompt.hits : h.id # e.id]_memoryVars

\* What a prompt recalls fits the token budget, unless a single entry is all of it.
RecallFitsBudget ==
  \A m \in UserMessage : LET p == doing[m].prompt
                     IN  p.used > Budget => \E v \in Value : p.used = Cost[v]

\* What is remembered stays as long as it should and fits where it is kept.
MemoryIsKept ==
  NothingLostWithoutNeed /\ ForgottenStaysOut /\ []LayersFit /\ []RecallFitsBudget

=============================================================================
