----------------------------- MODULE EVMCClient -----------------------------
(***************************************************************************)
(* A C++ client of the EVMC: the loader composed with the wrappers of      *)
(* utils/evmc/include/evmc/evmc.hpp that own what C functions return.  An  *)
(* object of class VM owns an instance, an object of class result owns the *)
(* memory behind a result.  The client may do with them what the language  *)
(* and the comments of the classes allow.                                  *)
(***************************************************************************)
EXTENDS EVMCLoader

CONSTANTS
  VMObject,      \* variables of class VM
  ResultObject,  \* variables of class result
  Memory         \* blocks that results may own (a bound)

VARIABLES
  held,        \* m_instance of each VM object
  kept,        \* the memory each result object has to release
  releases,    \* how often a block of memory was released
  allocated,   \* blocks handed out
  rawResults   \* blocks the client has a raw evmc_result for

resultVars == <<kept, releases, allocated, rawResults>>
vars == <<loaderVars, held, resultVars>>

NoRelease == "no release function"
Unborn == "not constructed"

ASSUME ObjectsAssumption ==
  /\ Unborn \notin Instance /\ {Unborn, NoRelease} \cap Memory = {}
  /\ {"client", "loader"} \cap (VMObject \cup ResultObject) = {}

Init ==
  /\ LoaderInit
  /\ held = [o \in VMObject |-> Unborn]
  /\ kept = [r \in ResultObject |-> Unborn]
  /\ releases = [b \in Memory |-> 0]
  /\ allocated = {}
  /\ rawResults = {}

\* Both classes: what p owned is o's, p owns nothing (o and p may be one).
MovedInto(h, o, p, null) == [h EXCEPT ![o] = h[p], ![p] = null]

\* A destructor: ends what is owned, if anything is.
Ended(count, x) ==
  IF x \in DOMAIN count THEN [count EXCEPT ![x] = @ + 1] ELSE count

-----------------------------------------------------------------------------
(* Class VM.                                                               *)

VMStep == call = Idle /\ UNCHANGED <<lastError, opened, origin, call,
                                     returned, functions, resultVars>>

\* Default construction, and construction from a raw pointer (setting options
\* then ignores what the VM answers).
VMConstruct(o) ==
  /\ VMStep /\ held[o] = Unborn
  /\ UNCHANGED destroys
  /\ \/ held' = [held EXCEPT ![o] = NoVM] /\ UNCHANGED raw
     \/ \E vm \in raw : /\ held' = [held EXCEPT ![o] = vm]
                        /\ raw' = raw \ {vm}

VMMoveConstruct(o, p) ==
  /\ VMStep /\ held[o] = Unborn /\ held[p] # Unborn
  /\ held' = MovedInto(held, o, p, NoVM)
  /\ UNCHANGED <<destroys, raw>>

\* operator=: o may be p, and then the instance is gone.
VMMoveAssign(o, p) ==
  /\ VMStep /\ held[o] # Unborn /\ held[p] # Unborn
  /\ destroys' = Ended(destroys, held[o])
  /\ held' = MovedInto(held, o, p, NoVM)
  /\ UNCHANGED raw

VMDestruct(o) ==
  /\ VMStep /\ held[o] # Unborn
  /\ destroys' = Ended(destroys, held[o])
  /\ held' = [held EXCEPT ![o] = Unborn]
  /\ UNCHANGED raw

-----------------------------------------------------------------------------
(* Class result.                                                           *)

ResultStep == call = Idle /\ UNCHANGED <<loaderVars, held>>

\* VM::execute constructs a result; one without output may have no memory.
Execute(o, r) ==
  /\ ResultStep /\ held[o] \in Instance /\ kept[r] = Unborn
  /\ \/ kept' = [kept EXCEPT ![r] = NoRelease] /\ UNCHANGED allocated
     \/ \E b \in Memory \ allocated : /\ kept' = [kept EXCEPT ![r] = b]
                                      /\ allocated' = allocated \cup {b}
  /\ UNCHANGED <<releases, rawResults>>

\* Converting constructor from a raw evmc_result, with memory or without.
ResultConstruct(r) ==
  /\ ResultStep /\ kept[r] = Unborn
  /\ \E b \in rawResults \cup {NoRelease} :
       /\ kept' = [kept EXCEPT ![r] = b]
       /\ rawResults' = rawResults \ {b}
  /\ UNCHANGED <<releases, allocated>>

ResultMoveConstruct(r, s) ==
  /\ ResultStep /\ kept[r] = Unborn /\ kept[s] # Unborn
  /\ kept' = MovedInto(kept, r, s, NoRelease)
  /\ UNCHANGED <<releases, allocated, rawResults>>

\* operator=: "The self-assigment MUST never happen."
ResultMoveAssign(r, s) ==
  /\ ResultStep /\ r # s /\ kept[r] # Unborn /\ kept[s] # Unborn
  /\ releases' = Ended(releases, kept[r])
  /\ kept' = MovedInto(kept, r, s, NoRelease)
  /\ UNCHANGED <<allocated, rawResults>>

ResultDestruct(r) ==
  /\ ResultStep /\ kept[r] # Unborn
  /\ releases' = Ended(releases, kept[r])
  /\ kept' = [kept EXCEPT ![r] = Unborn]
  /\ UNCHANGED <<allocated, rawResults>>

\* Bug: the object releases what it hands out.
StillReleased(r) == kept

\* release_raw: this->release = nullptr.
Disabled(r) == [kept EXCEPT ![r] = NoRelease]

\* release_raw: the client is left with the raw copy.
ReleaseRaw(r) ==
  /\ ResultStep /\ kept[r] # Unborn
  /\ kept' = Disabled(r)
  /\ rawResults' = rawResults \cup ({kept[r]} \cap Memory)
  /\ UNCHANGED <<releases, allocated>>

\* evmc_release_result on a raw result, which the client then forgets.
ReleaseResult(b) ==
  /\ ResultStep /\ b \in rawResults
  /\ releases' = Ended(releases, b)
  /\ rawResults' = rawResults \ {b}
  /\ UNCHANGED <<kept, allocated>>

-----------------------------------------------------------------------------
LoaderStep == LoaderNext /\ UNCHANGED <<held, resultVars>>

Next ==
  \/ LoaderStep
  \/ \E o \in VMObject :
       \/ VMConstruct(o) \/ VMDestruct(o)
       \/ \E p \in VMObject : VMMoveConstruct(o, p) \/ VMMoveAssign(o, p)
       \/ \E r \in ResultObject : Execute(o, r)
  \/ \E r \in ResultObject :
       \/ ResultConstruct(r) \/ ResultDestruct(r) \/ ReleaseRaw(r)
       \/ \E s \in ResultObject :
            ResultMoveConstruct(r, s) \/ ResultMoveAssign(r, s)
  \/ \E b \in Memory : ReleaseResult(b)

Spec == Init /\ [][Next]_vars
=============================================================================
