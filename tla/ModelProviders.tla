----------------------------- MODULE ModelProviders -----------------------------
(***************************************************************************)
(* The registry of model providers: one file, a copy of it in memory, and  *)
(* handlers that take a clone of the copy, change the clone and save it.   *)
(* Only the clone and the save hold the lock, so handlers interleave; a    *)
(* save truncates the file before it writes it.                            *)
(***************************************************************************)
EXTENDS Integers, Sequences, FiniteSets, SequencesExt

CONSTANTS
  ProvId, ProvName,  \* ids, and names up to case
  ApiKey, NoKey,     \* keys; NoKey is the empty one and the placeholder
  NoProv,            \* no default provider
  Registries,        \* what a start may find in the file
  LlmRequest,        \* the handlers
  MaxAsks,           \* bound: requests
  MaxLlmFaults       \* bound: failed writes and crashes

ASSUME ProvidersAssumption ==
  /\ NoKey \notin ApiKey /\ NoProv \notin ProvId
  /\ {MaxAsks, MaxLlmFaults} \subseteq Nat

VARIABLES
  stored,    \* model_config.json: absent, torn, or a registry
  known,     \* the storage's copy: absent until it is first read
  saver,     \* the handler that holds the lock for a save, or none
  handling,  \* per handler: its request and how far it is
  asks, llmFaults

llmVars == <<stored, known, saver, handling, asks, llmFaults>>

Provider == [id : ProvId, name : ProvName, key : ApiKey \cup {NoKey}, on : BOOLEAN, flag : BOOLEAN]

NoRegistry == [list |-> <<>>, def |-> NoProv, is |-> "absent"]
TornRegistry   == [list |-> <<>>, def |-> NoProv, is |-> "torn"]
Holds(list, def) == [list |-> list, def |-> def, is |-> "read"]

\* What a file can hold: nothing that decodes, or providers and a default in any
\* combination.
ASSUME RegistriesAssumption ==
  Registries \subseteq {TornRegistry}
                        \cup [list : Seq(Provider), def : ProvId \cup {NoProv}, is : {"read"}]

Unasked == [pc |-> "idle", op |-> "none", id |-> NoProv, new |-> <<>>, clone |-> NoRegistry, base |-> NoRegistry]

ProvidersInit ==
  /\ stored \in {NoRegistry} \cup Registries
  /\ known = NoRegistry
  /\ saver = {}
  /\ handling = [r \in LlmRequest |-> Unasked]
  /\ asks = 0 /\ llmFaults = 0

-----------------------------------------------------------------------------
(* The registry. *)

Ids(list)   == {list[n].id : n \in DOMAIN list}
Index(list, id) == CHOOSE n \in DOMAIN list : list[n].id = id
InList(list, id) == id \in Ids(list)
Provided(list, id) == list[Index(list, id)]

On(list) == {n \in DOMAIN list : list[n].on}

\* The default while it is enabled, or else the first that is.
Chosen(list, def) ==
  IF \E n \in On(list) : list[n].id = def THEN def
  ELSE IF On(list) = {} THEN NoProv
  ELSE list[CHOOSE n \in On(list) : \A m \in On(list) : n <= m].id

\* normalizeDefaultProviderState
Normal(list, def) ==
  LET chosen == Chosen(list, def)
  IN  Holds([n \in DOMAIN list |-> [list[n] EXCEPT !.flag = list[n].id = chosen]], chosen)

\* normalizeProvider, of the rules that tell providers apart.
HasKey(p) == p.on => p.key # NoKey

Distinct(list) == \A m, n \in DOMAIN list : m # n => list[m].id # list[n].id /\ list[m].name # list[n].name

\* Each change is the set of its outcomes: empty when it is refused.
Added(c, p) ==
  IF ~HasKey(p) \/ ~Distinct(Append(c.list, p)) THEN {}
  ELSE {Normal(Append(c.list, [p EXCEPT !.flag = FALSE]), c.def)}

DefaultFollowed(c, id, p)   == IF c.def = id THEN p.id ELSE c.def

Reconfigured(c, id, p) ==
  IF ~HasKey(p) \/ ~InList(c.list, id) THEN {}
  ELSE LET list == [c.list EXCEPT ![Index(c.list, id)] = p]
       IN  IF Distinct(list) THEN {Normal(list, DefaultFollowed(c, id, p))} ELSE {}

Deregistered(c, id) ==
  IF ~InList(c.list, id) THEN {}
  ELSE {Normal(RemoveAt(c.list, Index(c.list, id)), IF c.def = id THEN NoProv ELSE c.def)}

MadeDefault(c, id) ==
  IF InList(c.list, id) /\ Provided(c.list, id).on THEN {Normal(c.list, id)} ELSE {}

SwitchedAsIs(c, id, on) ==   \* mutant: the default is not chosen again
  IF ~InList(c.list, id) \/ (on /\ Provided(c.list, id).key = NoKey) THEN {}
  ELSE {Holds([c.list EXCEPT ![Index(c.list, id)].on = on], c.def)}
Switched(c, id, on) ==
  IF ~InList(c.list, id) \/ (on /\ Provided(c.list, id).key = NoKey) THEN {}
  ELSE {Normal([c.list EXCEPT ![Index(c.list, id)].on = on], c.def)}

-----------------------------------------------------------------------------
(* The storage. *)

\* reconcileLegacyProviderCredentials: what has no key is off.
Reconciled(list) == [n \in DOMAIN list |-> IF list[n].key = NoKey
                                           THEN [list[n] EXCEPT !.on = FALSE, !.flag = FALSE]
                                           ELSE list[n]]

\* Load: no file is the empty registry, a torn one an error, and so is one that is
\* not valid.
Loadable == CASE stored = NoRegistry -> {Holds(<<>>, NoProv)}
              [] stored = TornRegistry   -> {}
              [] OTHER -> IF Distinct(stored.list) THEN {Normal(Reconciled(stored.list), stored.def)}
                                                   ELSE {}

\* Get: what is known, or what can be loaded; the lock is free.
Got == IF known # NoRegistry THEN {known} ELSE Loadable

Gets == /\ saver = {}
        /\ known' = IF Got = {} THEN known ELSE CHOOSE c \in Got : TRUE

HandlerAt(r, label) == handling[r].pc = label
HandlerGoes(r, label) == handling' = [handling EXCEPT ![r].pc = label]
Answered(r)  == handling' = [handling EXCEPT ![r] = Unasked]

-----------------------------------------------------------------------------
(* The handlers. *)

\* The methods and actions of the two handlers, with what they name and submit.
Submit(r) ==
  /\ HandlerAt(r, "idle") /\ asks < MaxAsks /\ asks' = asks + 1
  /\ \E op \in {"add", "update", "remove", "default", "enable", "disable"}, id \in ProvId,
        p \in [id : ProvId, name : ProvName, key : ApiKey \cup {NoKey}, on : BOOLEAN, flag : {FALSE}] :
       /\ op = "add" => p.key # NoKey /\ id = p.id
       /\ op \notin {"add", "update"} => p = CHOOSE q \in [id : {id}, name : ProvName, key : {NoKey},
                                                        on : {FALSE}, flag : {FALSE}] : TRUE
       /\ handling' = [handling EXCEPT ![r] =
            [Unasked EXCEPT !.pc = IF op = "update" THEN "existing" ELSE "read",
                            !.op = op, !.id = id, !.new = <<p>>]]
  /\ UNCHANGED <<stored, known, saver, llmFaults>>

KeyOf(p, old) == IF p.key = NoKey THEN [p EXCEPT !.key = old.key] ELSE p

\* A PUT reads the provider before the service reads it again: without a key it
\* keeps the one that is there.
ReadExisting(r) ==
  /\ HandlerAt(r, "existing") /\ Gets
  /\ LET id == handling[r].id
         found == {Provided(c.list, id) : c \in {c \in Got : InList(c.list, id)}}
         kept == {KeyOf(handling[r].new[1], old) : old \in found}
     IN  \/ /\ \E p \in kept : HasKey(p) /\ handling' = [handling EXCEPT ![r].pc = "read", ![r].new = <<p>>]
         \/ /\ ~\E p \in kept : HasKey(p)
            /\ Answered(r)
  /\ UNCHANGED <<stored, saver, asks, llmFaults>>

ChangeOf(c, q) ==
  LET p == q.new[1]
  IN  CASE q.op = "add"     -> Added(c, p)
        [] q.op = "update"  -> Reconfigured(c, q.id, p)
        [] q.op = "remove"  -> Deregistered(c, q.id)
        [] q.op = "default" -> MadeDefault(c, q.id)
        [] q.op = "enable"  -> Switched(c, q.id, TRUE)
        [] q.op = "disable" -> Switched(c, q.id, FALSE)

\* The service's read: the change is made on a clone.
ReadAndChange(r) ==
  /\ HandlerAt(r, "read") /\ Gets
  /\ LET made == UNION {ChangeOf(c, handling[r]) : c \in Got}
     IN  \/ \E c \in made : handling' = [handling EXCEPT ![r].pc = "save", ![r].clone = c, ![r].base = known']
         \/ made = {} /\ Answered(r)
  /\ UNCHANGED <<stored, saver, asks, llmFaults>>

\* os.WriteFile truncates what is there.
BeginSave(r) ==
  /\ HandlerAt(r, "save") /\ saver = {}
  /\ saver' = {r} /\ stored' = TornRegistry /\ HandlerGoes(r, "saving")
  /\ UNCHANGED <<known, asks, llmFaults>>

SavedCopy(r) == handling[r].clone

EndSave(r) ==
  /\ HandlerAt(r, "saving")
  /\ stored' = handling[r].clone /\ known' = SavedCopy(r)
  /\ saver' = {} /\ HandlerGoes(r, "answer")
  /\ UNCHANGED <<asks, llmFaults>>

FailSave(r) ==
  /\ HandlerAt(r, "saving") /\ llmFaults < MaxLlmFaults /\ llmFaults' = llmFaults + 1
  /\ saver' = {} /\ Answered(r)
  /\ UNCHANGED <<stored, known, asks>>

\* The answer shows the provider as it is now; when it is gone the handler panics,
\* which ends the request only.
Reply(r) == /\ HandlerAt(r, "answer") /\ saver = {}
            /\ Answered(r)
            /\ UNCHANGED <<stored, known, saver, asks, llmFaults>>

\* Listing, and a message that resolves its provider, read the registry.
Resolve == /\ Gets /\ known' # known
           /\ UNCHANGED <<stored, saver, handling, asks, llmFaults>>

LlmCrash == /\ llmFaults < MaxLlmFaults /\ llmFaults' = llmFaults + 1
            /\ known' = NoRegistry /\ saver' = {}
            /\ handling' = [r \in LlmRequest |-> Unasked]
            /\ UNCHANGED <<stored, asks>>

ProvidersNext == \/ Resolve \/ LlmCrash
                 \/ \E r \in LlmRequest : \/ Submit(r) \/ ReadExisting(r) \/ ReadAndChange(r)
                                          \/ BeginSave(r) \/ EndSave(r) \/ FailSave(r) \/ Reply(r)

ProvidersSpec == ProvidersInit /\ [][ProvidersNext]_llmVars

-----------------------------------------------------------------------------
(* Properties. *)

\* Every variable has its type.
ProvidersTypeOK ==
  /\ {stored.is, known.is} \subseteq {"absent", "torn", "read"} /\ known.is # "torn"
  /\ {stored.def, known.def} \subseteq ProvId \cup {NoProv}
  /\ \A c \in {stored, known} : ToSet(c.list) \subseteq Provider
  /\ saver \in SUBSET LlmRequest
  /\ asks \in 0 .. MaxAsks /\ llmFaults \in 0 .. MaxLlmFaults

\* The registry in memory is one that every message can be resolved with, whatever
\* handlers saved over each other and whatever an older version left in the file: no
\* two providers share an id or a name, what is enabled has a key, one provider is
\* the default exactly when one is enabled, and it is the one that is flagged.
RegistryIsSound ==
  /\ Distinct(known.list)
  /\ \A n \in DOMAIN known.list : HasKey(known.list[n])
  /\ known.def = NoProv <=> On(known.list) = {}
  /\ \A n \in DOMAIN known.list : known.list[n].flag <=> known.list[n].id = known.def
  /\ known.def # NoProv => \E n \in On(known.list) : known.list[n].id = known.def

\* A restart finds what the handlers were told: unless a save was cut short, the
\* file loads as the registry in memory.
RestartFindsIt ==
  known # NoRegistry /\ saver = {} /\ stored # TornRegistry => Loadable = {known}

\* No save picks another default on its own: the default stays the provider it was
\* in what the handler read, under its new id when it was renamed, unless the handler
\* was asked for another or the provider is no longer there or enabled.
Carried(q) == IF q.op = "update" /\ q.id = q.base.def THEN q.new[1].id ELSE q.base.def
DefaultStaysChosen ==
  \A r \in LlmRequest :
    LET q == handling[r]
    IN  HandlerAt(r, "save") /\ q.base.def # NoProv /\ q.op # "default"
          => q.clone.def = Carried(q) \/ ~\E n \in On(q.clone.list) : q.clone.list[n].id = Carried(q)

\* The registry stays one that messages can be resolved with, whatever overlaps.
RegistryIsKept == ProvidersTypeOK /\ RegistryIsSound /\ RestartFindsIt /\ DefaultStaysChosen

=============================================================================
