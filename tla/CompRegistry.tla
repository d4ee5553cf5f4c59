---------------------------- MODULE CompRegistry ----------------------------
(***************************************************************************)
(* The merged registry of a component (Component::getRegistry): the first   *)
(* get of a property copies the registry of the component's kind and that   *)
(* of its type into one, under a lock, after a look at it without the lock. *)
(* "This field is locked as getting must be thread safe": so several        *)
(* threads get here, although only one does in the program today.           *)
(***************************************************************************)
EXTENDS Integers

CONSTANTS Readers,     \* threads that get properties of one component
          NoReader,    \* nobody
          MainProps,   \* properties of the component's kind
          SubProps,    \* properties of its type
          OtherProps,  \* properties it does not have
          MaxGets      \* bound: how many gets are begun

ASSUME RegistryAssumption ==
    /\ NoReader \notin Readers
    /\ MainProps \cap SubProps = {}
    /\ OtherProps \cap (MainProps \cup SubProps) = {}
    /\ MaxGets \in Nat

VARIABLES merged,   \* mergedRegistry
          regLock,  \* who holds the lock
          at,       \* where each reader is
          want,     \* the property it gets
          left,     \* what it has still to insert
          answer,   \* what its last get gave
          gets,     \* gets begun
          warm,     \* a get has ended and none was going on then
          sole      \* readers whose get met no other, or began warm

regVars == <<merged, regLock, at, want, left, answer, gets, warm, sole>>

Whole == MainProps \cup SubProps

NoGet == "none"

RegInit ==
    /\ merged = {}
    /\ regLock = NoReader
    /\ at = [t \in Readers |-> "idle"]
    /\ want = [t \in Readers |-> NoGet]
    /\ left = [t \in Readers |-> {}]
    /\ answer = [t \in Readers |-> NoGet]
    /\ gets = 0
    /\ warm = FALSE
    /\ sole = {}

Busy == {t \in Readers : at[t] # "idle"}

\* The hash table is being filled: a look at it may give anything.
Filling == regLock # NoReader /\ merged # Whole

-----------------------------------------------------------------------------
(* One get of a property.                                                   *)

Goto(t, label) == at' = [at EXCEPT ![t] = label]

\* mergedRegistry.empty()
Begin(t, p) ==
    /\ at[t] = "idle"
    /\ gets < MaxGets
    /\ gets' = gets + 1
    /\ \E empty \in IF Filling THEN BOOLEAN ELSE {merged = {}} :
           Goto(t, IF empty THEN "lock" ELSE "find")
    /\ want' = [want EXCEPT ![t] = p]
    /\ answer' = [answer EXCEPT ![t] = NoGet]
    \* A get that begins while others go on is met by them, and meets them.
    /\ sole' = IF warm THEN sole \cup {t}
               ELSE IF Busy = {} THEN {t} ELSE {}
    /\ UNCHANGED <<merged, regLock, left, warm>>

\* Mutant: only the registry of the kind is taken.
TakeLock_MainOnly(t) ==
    /\ at[t] = "lock"
    /\ regLock = NoReader
    /\ regLock' = t
    /\ left' = [left EXCEPT ![t] = MainProps]
    /\ Goto(t, "sub")
    /\ UNCHANGED <<merged, want, answer, gets, warm, sole>>

\* Whether the registry is still empty is not asked again.
TakeLock(t) ==
    /\ at[t] = "lock"
    /\ regLock = NoReader
    /\ regLock' = t
    /\ left' = [left EXCEPT ![t] = MainProps]
    /\ Goto(t, "main")
    /\ UNCHANGED <<merged, want, answer, gets, warm, sole>>

\* insert leaves what is there alone.
InsertMain(t, p) ==
    /\ at[t] = "main"
    /\ p \in left[t]
    /\ merged' = merged \cup {p}
    /\ left' = [left EXCEPT ![t] = @ \ {p}]
    /\ UNCHANGED <<regLock, at, want, answer, gets, warm, sole>>

TurnToSub(t) ==
    /\ at[t] = "main"
    /\ left[t] = {}
    /\ left' = [left EXCEPT ![t] = SubProps]
    /\ Goto(t, "sub")
    /\ UNCHANGED <<merged, regLock, want, answer, gets, warm, sole>>

InsertSub(t, p) ==
    /\ at[t] = "sub"
    /\ p \in left[t] \ merged
    /\ merged' = merged \cup {p}
    /\ left' = [left EXCEPT ![t] = @ \ {p}]
    /\ UNCHANGED <<regLock, at, want, answer, gets, warm, sole>>

Unlock(t) ==
    /\ at[t] = "sub"
    /\ left[t] = {}
    /\ regLock' = NoReader
    /\ Goto(t, "find")
    /\ UNCHANGED <<merged, want, left, answer, gets, warm, sole>>

End(t, result) ==
    /\ answer' = [answer EXCEPT ![t] = result]
    /\ Goto(t, "idle")
    /\ warm' = (warm \/ Busy = {t})
    /\ UNCHANGED <<want, gets, sole>>

\* PropConflict is thrown, and the lock let go.
Throw(t) ==
    /\ at[t] = "sub"
    /\ left[t] \cap merged # {}
    /\ regLock' = NoReader
    /\ left' = [left EXCEPT ![t] = {}]
    /\ End(t, "thrown")
    /\ UNCHANGED merged

\* registry.find, without the lock.
Find(t) ==
    /\ at[t] = "find"
    /\ \E found \in IF Filling THEN BOOLEAN ELSE {want[t] \in merged} :
           End(t, IF found THEN "found" ELSE "missing")
    /\ UNCHANGED <<merged, regLock, left>>

\* Every get has ended.
GetsDone ==
    /\ gets = MaxGets
    /\ Busy = {}
    /\ UNCHANGED regVars

RegNext ==
    \/ \E t \in Readers :
          \/ \E p \in Whole \cup OtherProps : Begin(t, p)
          \/ TakeLock(t) \/ TurnToSub(t) \/ Unlock(t) \/ Throw(t) \/ Find(t)
          \/ \E p \in Whole : InsertMain(t, p) \/ InsertSub(t, p)
    \/ GetsDone

RegSpec == RegInit /\ [][RegNext]_regVars

-----------------------------------------------------------------------------
\* The answer is the one the two registries give together.
AnsweredRight(t) ==
    answer[t] # NoGet => answer[t] = IF want[t] \in Whole THEN "found" ELSE "missing"

\* A get that meets no other one finds exactly the properties of the kind and
\* of the type, and nothing is thrown; and once no get is going on, after the
\* first, the same holds of every later one, whatever runs beside it.
SoleReaderFinds == \A t \in sole : AnsweredRight(t)

-----------------------------------------------------------------------------
(* What the code says of itself and does not keep.                          *)

\* "Getting must be thread safe": the threads that race for the first get find
\* what the component has, as any other, and none gets PropConflict.
GetsAreSafe == \A t \in Readers : AnsweredRight(t)

=============================================================================
