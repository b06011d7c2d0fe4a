-------------------------- MODULE EVMCClientProofs --------------------------
(***************************************************************************)
(* Proofs, for any files, objects, instances and blocks of memory, of the  *)
(* types, the ownership properties of EVMCClientProps and the one about    *)
(* messages.  What an option text is split into plays a part in the types  *)
(* only, which come next; and last that splitting a configuration undoes   *)
(* writing it: whatever list of options a text was written from,           *)
(* get_token's two uses take it apart into that list.                      *)
(***************************************************************************)
EXTENDS EVMCClientProps, NumberLemmas, SequenceTheorems, TLAPS

USE NamesAssumption, ObjectsAssumption

-----------------------------------------------------------------------------
(* The inductive invariant, one instance, block or library at a time.      *)

Configuring ==
  [phase |-> "options", vm |-> call.vm, text |-> call.text,
   rest |-> call.rest, accepted |-> call.accepted]

LoaderTypes ==
  /\ opened \in [Filename -> Nat]
  /\ origin \in [Instance -> Creator \cup {NoFile}]
  /\ destroys \in [Instance -> Nat]
  /\ call = Idle \/ (call = Configuring /\ call.vm \in Instance)
  /\ functions \subseteq Creator
  /\ raw \subseteq Instance

ObjectTypes ==
  /\ held \in [VMObject -> Instance \cup {NoVM, Unborn}]
  /\ kept \in [ResultObject -> Memory \cup {NoRelease, Unborn}]
  /\ releases \in [Memory -> Nat]
  /\ allocated \subseteq Memory
  /\ rawResults \subseteq Memory

Held(vm) == \E o \in VMObject : held[o] = vm
InCall(vm) == call # Idle /\ call.vm = vm

\* InstancesOwnedOnce for one instance, owner by owner; and nothing destroys
\* an instance that is not created.
InstanceOK(vm) ==
  /\ origin[vm] = NoFile => destroys[vm] = 0
  /\ destroys[vm] <= 1
  /\ (vm \in raw \/ InCall(vm) \/ Held(vm))
       <=> origin[vm] # NoFile /\ destroys[vm] = 0
  /\ vm \in raw => ~InCall(vm) /\ ~Held(vm)
  /\ InCall(vm) => ~Held(vm)
  /\ \A o, p \in VMObject : held[o] = vm /\ held[p] = vm => o = p

Kept(b) == \E r \in ResultObject : kept[r] = b

\* ResultsOwnedOnce for one block, likewise.
MemoryOK(b) ==
  /\ b \notin allocated => releases[b] = 0
  /\ releases[b] <= 1
  /\ (b \in rawResults \/ Kept(b)) <=> b \in allocated /\ releases[b] = 0
  /\ b \in rawResults => ~Kept(b)
  /\ \A r, s \in ResultObject : kept[r] = b /\ kept[s] = b => r = s

\* The library of every instance ever created is open, destroyed or not.
OriginOpen(vm) == origin[vm] # NoFile => opened[origin[vm]] > 0

LibrariesOK ==
  /\ \A vm \in Instance : OriginOpen(vm)
  /\ \A f \in functions : opened[f] > 0

\* While options are set, creation has just succeeded.
MessageOK ==
  /\ MessageOfLastError
  /\ call # Idle => lastError = NoMessage

Inv ==
  /\ LoaderTypes
  /\ ObjectTypes
  /\ \A vm \in Instance : InstanceOK(vm)
  /\ \A b \in Memory : MemoryOK(b)
  /\ LibrariesOK
  /\ MessageOK

-----------------------------------------------------------------------------
(* What the parts say together.                                            *)

\* Owner by owner or over all owners, an instance is owned alike.
LEMMA InstancesFromParts ==
  ASSUME \A vm \in Instance : InstanceOK(vm)
  PROVE  InstancesOwnedOnce
<1> SUFFICES ASSUME NEW vm \in Instance
             PROVE  /\ destroys[vm] <= 1
                    /\ (\E x \in VMOwners : OwnsVM(x, vm))
                         <=> origin[vm] # NoFile /\ destroys[vm] = 0
                    /\ \A x, y \in VMOwners :
                         OwnsVM(x, vm) /\ OwnsVM(y, vm) => x = y
  BY DEF InstancesOwnedOnce
<1>1. InstanceOK(vm)
  OBVIOUS
<1>2. OwnsVM("client", vm) <=> vm \in raw
  BY DEF OwnsVM
<1>3. OwnsVM("loader", vm) <=> InCall(vm)
  BY DEF OwnsVM, InCall
<1>4. \A x \in VMObject : OwnsVM(x, vm) <=> held[x] = vm
  BY DEF OwnsVM
<1>. QED
  BY <1>1, <1>2, <1>3, <1>4 DEF InstanceOK, VMOwners, Held

\* So is a block of memory.
LEMMA ResultsFromParts ==
  ASSUME \A b \in Memory : MemoryOK(b)
  PROVE  ResultsOwnedOnce
<1> SUFFICES ASSUME NEW b \in Memory
             PROVE  /\ releases[b] <= 1
                    /\ (\E x \in ResultOwners : OwnsMemory(x, b))
                         <=> b \in allocated /\ releases[b] = 0
                    /\ \A x, y \in ResultOwners :
                         OwnsMemory(x, b) /\ OwnsMemory(y, b) => x = y
  BY DEF ResultsOwnedOnce
<1>1. MemoryOK(b)
  OBVIOUS
<1>2. OwnsMemory("client", b) <=> b \in rawResults
  BY DEF OwnsMemory
<1>3. \A x \in ResultObject : OwnsMemory(x, b) <=> kept[x] = b
  BY DEF OwnsMemory
<1>. QED
  BY <1>1, <1>2, <1>3 DEF MemoryOK, ResultOwners, Kept

-----------------------------------------------------------------------------
(* Initially.                                                              *)

\* Nothing is loaded, created or allocated yet.
LEMMA InvInit == Init => Inv
<1> SUFFICES ASSUME Init PROVE Inv
  OBVIOUS
<1> USE DEF Init, LoaderInit
<1>1. LoaderTypes /\ ObjectTypes
  BY DEF LoaderTypes, ObjectTypes
<1>2. \A vm \in Instance : InstanceOK(vm)
  BY DEF InstanceOK, Held, InCall
<1>3. \A b \in Memory : MemoryOK(b)
  BY DEF MemoryOK, Kept
<1>4. LibrariesOK /\ MessageOK
  BY DEF LibrariesOK, OriginOpen, MessageOK, MessageOfLastError
<1>. QED
  BY <1>1, <1>2, <1>3, <1>4 DEF Inv

-----------------------------------------------------------------------------
(* Steps of the loader leave the objects alone.                            *)

\* The parts about objects, when only the loader moves.
LEMMA ResultsUnchanged ==
  ASSUME Inv, UNCHANGED <<held, resultVars>>
  PROVE  ObjectTypes' /\ \A b \in Memory : MemoryOK(b)'
BY DEF Inv, ObjectTypes, MemoryOK, Kept, resultVars

\* evmc_load.
LEMMA LoadStep ==
  ASSUME Inv, UNCHANGED <<held, resultVars>>, NEW f \in Filename, Load(f)
  PROVE  Inv'
<1> USE DEF Inv, Load, MayLoad
<1>1. ObjectTypes' /\ \A b \in Memory : MemoryOK(b)'
  BY ResultsUnchanged
<1>2. LoaderTypes'
  BY FilesAssumption DEF LoaderTypes, OpenedBy, Found, Configuring
<1>3. \A vm \in Instance : InstanceOK(vm)'
  BY DEF InstanceOK, Held, InCall
<1>4. LibrariesOK'
  BY FilesAssumption DEF LibrariesOK, OriginOpen, LoaderTypes, OpenedBy, Found
<1>5. MessageOK'
  BY DEF MessageOK, MessageOfLastError, LoadMessages, LoadCode, Described,
         Reset, Answer
<1>. QED
  BY <1>1, <1>2, <1>3, <1>4, <1>5

\* evmc_load_and_create and evmc_load_and_configure as far as they fail.
LEMMA CreationFailsStep ==
  ASSUME Inv, UNCHANGED <<held, resultVars>>, UNCHANGED call, call = Idle,
         NEW f \in Filename, CreationFails(f)
  PROVE  Inv'
<1> USE DEF Inv, CreationFails
<1>1. ObjectTypes' /\ \A b \in Memory : MemoryOK(b)'
  BY ResultsUnchanged
<1>2. LoaderTypes'
  BY FilesAssumption DEF LoaderTypes, OpenedBy, Configuring, Fresh
<1>3. \A vm \in Instance : InstanceOK(vm)'
  BY FilesAssumption DEF InstanceOK, Held, InCall, Fresh, LoaderTypes
<1>4. LibrariesOK'
  BY FilesAssumption DEF LibrariesOK, OriginOpen, LoaderTypes, OpenedBy, Fresh
<1>5. MessageOK'
  BY DEF MessageOK, MessageOfLastError, LoadMessages, LoadCode, Described,
         Reset, Answer
<1>. QED
  BY <1>1, <1>2, <1>3, <1>4, <1>5

\* evmc_load_and_create.
LEMMA LoadAndCreateStep ==
  ASSUME Inv, UNCHANGED <<held, resultVars>>,
         NEW f \in Filename, LoadAndCreate(f)
  PROVE  Inv'
<1>1. CASE CreationFails(f)
  BY <1>1, CreationFailsStep DEF LoadAndCreate, MayLoad
<1>2. ASSUME NEW vm \in Instance, CreationSucceeds(f, vm),
             Answer("SUCCESS", vm), raw' = raw \cup {vm}
      PROVE  Inv'
  <2> USE <1>2 DEF Inv, LoadAndCreate, MayLoad, CreationSucceeds
  <2>1. ObjectTypes' /\ \A b \in Memory : MemoryOK(b)'
    BY ResultsUnchanged
  <2>2. LoaderTypes'
    BY FilesAssumption DEF LoaderTypes, OpenedBy, Configuring, Fresh
  <2>3. \A v \in Instance : InstanceOK(v)'
    BY FilesAssumption DEF InstanceOK, Held, InCall, Fresh, LoaderTypes
  <2>4. LibrariesOK'
    BY FilesAssumption DEF LibrariesOK, OriginOpen, LoaderTypes, OpenedBy, Fresh
  <2>5. MessageOK'
    BY DEF MessageOK, MessageOfLastError, Reset, Answer
  <2>. QED
    BY <2>1, <2>2, <2>3, <2>4, <2>5
<1>. QED
  BY <1>1, <1>2 DEF LoadAndCreate

\* evmc_load_and_configure before the options.
LEMMA LoadAndConfigureStep ==
  ASSUME Inv, UNCHANGED <<held, resultVars>>,
         NEW f \in Filename, NEW text \in OptionText, LoadAndConfigure(f, text)
  PROVE  Inv'
<1>1. CASE CreationFails(f) /\ UNCHANGED call
  BY <1>1, CreationFailsStep DEF LoadAndConfigure, MayLoad
<1>2. ASSUME NEW vm \in Instance, CreationSucceeds(f, vm),
             call' = [phase |-> "options", vm |-> vm, text |-> text,
                      rest |-> text, accepted |-> <<>>],
             UNCHANGED <<returned, raw>>
      PROVE  Inv'
  <2> USE <1>2 DEF Inv, LoadAndConfigure, MayLoad, CreationSucceeds
  <2>0. call' # Idle /\ call'.vm = vm
    BY DEF Idle
  <2>1. ObjectTypes' /\ \A b \in Memory : MemoryOK(b)'
    BY ResultsUnchanged
  <2>2. LoaderTypes'
    BY FilesAssumption DEF LoaderTypes, OpenedBy, Configuring, Fresh
  <2>3. \A v \in Instance : InstanceOK(v)'
    BY <2>0, FilesAssumption DEF InstanceOK, Held, InCall, Fresh, LoaderTypes
  <2>4. LibrariesOK'
    BY FilesAssumption DEF LibrariesOK, OriginOpen, LoaderTypes, OpenedBy, Fresh
  <2>5. MessageOK'
    BY <2>0 DEF MessageOK, MessageOfLastError, Reset
  <2>. QED
    BY <2>1, <2>2, <2>3, <2>4, <2>5
<1>. QED
  BY <1>1, <1>2 DEF LoadAndConfigure

\* A refused option ends the call and the instance.
LEMMA RefuseStep ==
  ASSUME Inv, UNCHANGED <<held, resultVars>>, call # Idle,
         NEW code, Refuse(code)
  PROVE  Inv'
<1> USE DEF Inv, Refuse
<1>1. ObjectTypes' /\ \A b \in Memory : MemoryOK(b)'
  BY ResultsUnchanged
<1>2. LoaderTypes'
  BY DEF LoaderTypes, DestroysRefused
<1>3. \A vm \in Instance : InstanceOK(vm)'
  BY DEF InstanceOK, Held, InCall, LoaderTypes, DestroysRefused
<1>4. LibrariesOK'
  BY DEF LibrariesOK, OriginOpen
<1>5. MessageOK'
  BY DEF MessageOK, MessageOfLastError, Described, Answer
<1>. QED
  BY <1>1, <1>2, <1>3, <1>4, <1>5

\* One option.
LEMMA SetOptionStep ==
  ASSUME Inv, UNCHANGED <<held, resultVars>>, SetOption
  PROVE  Inv'
<1>1. CASE Refuse("INVALID_OPTION_NAME") \/ Refuse("INVALID_OPTION_VALUE")
  BY <1>1, RefuseStep DEF SetOption
<1>2. ASSUME NEW rest, NEW accepted,
             call # Idle,
             call' = [call EXCEPT !.rest = rest, !.accepted = accepted],
             UNCHANGED <<lastError, opened, origin, destroys, returned,
                         functions, raw>>
      PROVE  Inv'
  <2> USE <1>2 DEF Inv
  <2>0. call' # Idle /\ call'.vm = call.vm /\ call' = Configuring'
    <3>1. \E v, t, r, a : call = [phase |-> "options", vm |-> v, text |-> t,
                                  rest |-> r, accepted |-> a]
      BY DEF LoaderTypes, Configuring
    <3>2. PICK v, t, r, a : call = [phase |-> "options", vm |-> v, text |-> t,
                                    rest |-> r, accepted |-> a]
      BY <3>1
    <3>3. call' = [phase |-> "options", vm |-> v, text |-> t, rest |-> rest,
                   accepted |-> accepted]
      BY <3>2
    <3>. QED
      BY <3>2, <3>3 DEF Configuring, Idle
  <2>1. ObjectTypes' /\ \A b \in Memory : MemoryOK(b)'
    BY ResultsUnchanged
  <2>2. LoaderTypes'
    BY <2>0 DEF LoaderTypes
  <2>3. \A vm \in Instance : InstanceOK(vm)'
    BY <2>0 DEF InstanceOK, Held, InCall
  <2>4. LibrariesOK' /\ MessageOK'
    BY <2>0 DEF LibrariesOK, OriginOpen, MessageOK, MessageOfLastError
  <2>. QED
    BY <2>1, <2>2, <2>3, <2>4
<1>. QED
  BY <1>1, <1>2 DEF SetOption

\* The configured instance is returned.
LEMMA ConfiguredStep ==
  ASSUME Inv, UNCHANGED <<held, resultVars>>, Configured
  PROVE  Inv'
<1> USE DEF Inv, Configured
<1>1. ObjectTypes' /\ \A b \in Memory : MemoryOK(b)'
  BY ResultsUnchanged
<1>2. LoaderTypes'
  BY DEF LoaderTypes
<1>3. \A vm \in Instance : InstanceOK(vm)'
  BY DEF InstanceOK, Held, InCall, LoaderTypes
<1>4. LibrariesOK' /\ MessageOK'
  BY DEF LibrariesOK, OriginOpen, MessageOK, MessageOfLastError, Answer
<1>. QED
  BY <1>1, <1>2, <1>3, <1>4

\* A create function called by the client, and a raw pointer destroyed.
LEMMA ClientStep ==
  ASSUME Inv, UNCHANGED <<held, resultVars>>,
         \/ \E f \in Filename : CreateInstance(f)
         \/ \E vm \in Instance : Destroy(vm)
  PROVE  Inv'
<1> USE DEF Inv, CreateInstance, Destroy
<1>1. ObjectTypes' /\ \A b \in Memory : MemoryOK(b)'
  BY ResultsUnchanged
<1>2. LoaderTypes'
  BY DEF LoaderTypes, Fresh
<1>3. \A vm \in Instance : InstanceOK(vm)'
  <2>1. ASSUME NEW f \in Filename, CreateInstance(f), NEW vm \in Instance
        PROVE  InstanceOK(vm)'
    BY <2>1 DEF InstanceOK, Held, InCall, Fresh, LoaderTypes
  <2>2. ASSUME NEW v \in Instance, Destroy(v), NEW vm \in Instance
        PROVE  InstanceOK(vm)'
    BY <2>2 DEF InstanceOK, Held, InCall, LoaderTypes
  <2>. QED
    BY <2>1, <2>2
<1>4. LibrariesOK' /\ MessageOK'
  BY DEF LibrariesOK, OriginOpen, MessageOK, MessageOfLastError, LoaderTypes,
         Fresh
<1>. QED
  BY <1>1, <1>2, <1>3, <1>4

\* Messages handed out, and a configuration that is too long.
LEMMA MessageStep ==
  ASSUME Inv, UNCHANGED <<held, resultVars>>,
         LastErrorMsg \/ ConfigurationTooLong
  PROVE  Inv'
<1> USE DEF Inv, LastErrorMsg, ConfigurationTooLong
<1>1. ObjectTypes' /\ \A b \in Memory : MemoryOK(b)'
  BY ResultsUnchanged
<1>2. LoaderTypes'
  BY DEF LoaderTypes
<1>3. \A vm \in Instance : InstanceOK(vm)'
  BY DEF InstanceOK, Held, InCall
<1>4. LibrariesOK' /\ MessageOK'
  BY DEF LibrariesOK, OriginOpen, MessageOK, MessageOfLastError, Answer
<1>. QED
  BY <1>1, <1>2, <1>3, <1>4

\* Every step of the loader and of the client's raw pointers.
LEMMA LoaderPreserves == Inv /\ LoaderStep => Inv'
BY LoadStep, LoadAndCreateStep, LoadAndConfigureStep, SetOptionStep,
   RefuseStep, ConfiguredStep, ClientStep, MessageStep
   DEF LoaderStep, LoaderNext, NoOptions

-----------------------------------------------------------------------------
(* Steps of class VM leave the results and the loader's call alone.        *)

\* What a step of class VM does not disturb.
LEMMA VMFrame ==
  ASSUME Inv, VMStep
  PROVE  /\ \A b \in Memory : MemoryOK(b)'
         /\ LibrariesOK' /\ MessageOK'
BY DEF Inv, VMStep, MemoryOK, Kept, resultVars, LibrariesOK, OriginOpen,
       MessageOK, MessageOfLastError

\* Construction, destruction and both moves, self-move included.
LEMMA VMPreserves ==
  ASSUME Inv, NEW o \in VMObject,
         \/ VMConstruct(o) \/ VMDestruct(o)
         \/ \E p \in VMObject : VMMoveConstruct(o, p) \/ VMMoveAssign(o, p)
  PROVE  Inv'
<1>1. VMStep
  BY DEF VMConstruct, VMDestruct, VMMoveConstruct, VMMoveAssign
<1>2. ASSUME NEW p \in VMObject, NEW vm \in Instance,
             \/ VMConstruct(o) \/ VMDestruct(o)
             \/ VMMoveConstruct(o, p) \/ VMMoveAssign(o, p)
      PROVE  InstanceOK(vm)'
  <2> USE DEF Inv, LoaderTypes, ObjectTypes, VMStep, InstanceOK, InCall, Held,
              MovedInto, Ended
  <2>1. CASE VMConstruct(o)
    BY <2>1 DEF VMConstruct
  <2>2. CASE VMDestruct(o)
    BY <2>2 DEF VMDestruct
  <2>3. CASE VMMoveConstruct(o, p)
    BY <2>3 DEF VMMoveConstruct
  <2>4. CASE VMMoveAssign(o, p)
    BY <2>4 DEF VMMoveAssign
  <2>. QED
    BY <1>2, <2>1, <2>2, <2>3, <2>4
<1>3. LoaderTypes' /\ ObjectTypes'
  <2> USE DEF Inv, LoaderTypes, ObjectTypes, VMStep, MovedInto, Ended,
              Configuring, resultVars
  <2>1. CASE VMConstruct(o)
    BY <2>1 DEF VMConstruct
  <2>2. CASE VMDestruct(o)
    BY <2>2 DEF VMDestruct
  <2>3. ASSUME NEW p \in VMObject, VMMoveConstruct(o, p)
        PROVE  LoaderTypes' /\ ObjectTypes'
    BY <2>3 DEF VMMoveConstruct
  <2>4. ASSUME NEW p \in VMObject, VMMoveAssign(o, p)
        PROVE  LoaderTypes' /\ ObjectTypes'
    BY <2>4 DEF VMMoveAssign
  <2>. QED
    BY <2>1, <2>2, <2>3, <2>4
<1>. QED
  BY <1>1, <1>2, <1>3, VMFrame DEF Inv

-----------------------------------------------------------------------------
(* Steps of class result leave everything else alone.                      *)

\* What a step of class result does not disturb.
LEMMA ResultFrame ==
  ASSUME Inv, ResultStep
  PROVE  /\ LoaderTypes' /\ held' = held
         /\ \A vm \in Instance : InstanceOK(vm)'
         /\ LibrariesOK' /\ MessageOK'
BY DEF Inv, ResultStep, loaderVars, LoaderTypes, Configuring, InstanceOK, Held,
       InCall, LibrariesOK, OriginOpen, MessageOK, MessageOfLastError

\* The steps of class result, and evmc_release_result.
ResultNext ==
  \/ \E o \in VMObject, r \in ResultObject : Execute(o, r)
  \/ \E r \in ResultObject :
       \/ ResultConstruct(r) \/ ResultDestruct(r) \/ ReleaseRaw(r)
       \/ \E s \in ResultObject :
            ResultMoveConstruct(r, s) \/ ResultMoveAssign(r, s)
  \/ \E b \in Memory : ReleaseResult(b)

\* Each of them.
LEMMA ResultPreserves ==
  ASSUME Inv, ResultNext
  PROVE  Inv'
<1>1. ResultStep
  BY DEF ResultNext, Execute, ResultConstruct, ResultDestruct, ReleaseRaw,
         ResultMoveConstruct, ResultMoveAssign, ReleaseResult
<1>2. ASSUME NEW b \in Memory
      PROVE  MemoryOK(b)'
  <2> USE DEF Inv, ObjectTypes, MemoryOK, Kept, MovedInto, Ended
  <2>1. ASSUME NEW o \in VMObject, NEW r \in ResultObject, Execute(o, r)
        PROVE  MemoryOK(b)'
    BY <2>1 DEF Execute
  <2>2. ASSUME NEW r \in ResultObject, ResultConstruct(r)
        PROVE  MemoryOK(b)'
    BY <2>2 DEF ResultConstruct
  <2>3. ASSUME NEW r \in ResultObject, ResultDestruct(r)
        PROVE  MemoryOK(b)'
    BY <2>3 DEF ResultDestruct
  <2>4. ASSUME NEW r \in ResultObject, ReleaseRaw(r)
        PROVE  MemoryOK(b)'
    BY <2>4 DEF ReleaseRaw, Disabled
  <2>5. ASSUME NEW r \in ResultObject, NEW s \in ResultObject,
               ResultMoveConstruct(r, s)
        PROVE  MemoryOK(b)'
    BY <2>5 DEF ResultMoveConstruct
  <2>6. ASSUME NEW r \in ResultObject, NEW s \in ResultObject,
               ResultMoveAssign(r, s)
        PROVE  MemoryOK(b)'
    BY <2>6 DEF ResultMoveAssign
  <2>7. ASSUME NEW c \in Memory, ReleaseResult(c)
        PROVE  MemoryOK(b)'
    BY <2>7 DEF ReleaseResult
  <2>. QED
    BY <2>1, <2>2, <2>3, <2>4, <2>5, <2>6, <2>7 DEF ResultNext
<1>3. ObjectTypes'
  BY ResultFrame, <1>1
     DEF Inv, ObjectTypes, ResultNext, Execute, ResultConstruct,
         ResultDestruct, ReleaseRaw, Disabled, ResultMoveConstruct,
         ResultMoveAssign, ReleaseResult, MovedInto, Ended
<1>. QED
  BY <1>1, <1>2, <1>3, ResultFrame DEF Inv

-----------------------------------------------------------------------------
(* The theorems.                                                           *)

\* The invariant holds in every behaviour of a client and its loader.
THEOREM ClientInvariance == Spec => []Inv
<1>1. Inv /\ [Next]_vars => Inv'
  <2> SUFFICES ASSUME Inv, [Next]_vars PROVE Inv'
    OBVIOUS
  <2>1. CASE LoaderStep
    BY <2>1, LoaderPreserves
  <2>2. CASE UNCHANGED vars
    BY <2>2 DEF vars, loaderVars, resultVars, Inv, LoaderTypes, ObjectTypes,
                Configuring, InstanceOK, Held, InCall, MemoryOK, Kept,
                LibrariesOK, OriginOpen, MessageOK, MessageOfLastError
  <2>. QED
    BY <2>1, <2>2, VMPreserves, ResultPreserves DEF Next, ResultNext
<1>. QED
  BY InvInit, <1>1, PTL DEF Spec

\* Every instance is destroyed at most once, by its only owner, and owned
\* until then, through loader failures and moves of class VM.
THEOREM InstancesAreOwnedOnce == Spec => []InstancesOwnedOnce
<1>1. Inv => InstancesOwnedOnce
  BY InstancesFromParts DEF Inv
<1>. QED
  BY <1>1, ClientInvariance, PTL

\* The memory of every result is released at most once, by its only owner,
\* through moves, release_raw and construction from a raw result.
THEOREM ResultsAreOwnedOnce == Spec => []ResultsOwnedOnce
<1>1. Inv => ResultsOwnedOnce
  BY ResultsFromParts DEF Inv
<1>. QED
  BY <1>1, ClientInvariance, PTL

\* evmc_load closes a library only when it returns nothing from it.
THEOREM CodeIsLoaded == Spec => []CodeStaysLoaded
<1>1. Inv => CodeStaysLoaded
  BY DEF Inv, LibrariesOK, OriginOpen, CodeStaysLoaded
<1>. QED
  BY <1>1, ClientInvariance, PTL

\* The last error message is the last loading function's or none.
THEOREM MessagesAreCurrent == Spec => []MessageOfLastError
<1>1. Inv => MessageOfLastError
  BY DEF Inv, MessageOK
<1>. QED
  BY <1>1, ClientInvariance, PTL

-----------------------------------------------------------------------------
(* Splitting texts.                                                        *)

\* get_token finds its delimiter, or the end.
LEMMA PositionIsFound ==
  ASSUME NEW s \in Seq(Char), NEW c
  PROVE  Position(s, c) \in 1..Len(s) + 1
<1> DEFINE Ends(i) == /\ i <= Len(s) => s[i] = c
                      /\ \A j \in 1..i - 1 : s[j] # c
           T == {i \in 1..Len(s) + 1 : i <= Len(s) => s[i] = c}
<1>0. Len(s) \in Nat
  OBVIOUS
<1>1. T \subseteq Nat /\ Len(s) + 1 \in T
  BY <1>0
<1>2. PICK i \in T : \A j \in T : ~(j < i)
  BY <1>1, LeastNumber, Zenon
<1>3. ASSUME NEW j \in 1..i - 1 PROVE s[j] # c
  BY <1>0, <1>2, <1>3
<1>4. i \in 1..Len(s) + 1 /\ Ends(i)
  BY <1>2, <1>3
<1> HIDE DEF Ends, T
<1>5. \E p \in 1..Len(s) + 1 : Ends(p)
  BY <1>4
<1>6. (CHOOSE p \in 1..Len(s) + 1 : Ends(p)) \in 1..Len(s) + 1
  BY <1>5
<1> QED
  BY <1>6 DEF Position, Ends

\* What it splits a text into are texts.
LEMMA TokensAreTexts ==
  ASSUME NEW s \in Seq(Char), NEW c
  PROVE  Token(s, c) \in Seq(Char) /\ Rest(s, c) \in Seq(Char)
<1> DEFINE p == Position(s, c)
<1>1. p \in 1..Len(s) + 1 /\ Len(s) \in Nat
  BY PositionIsFound
<1> HIDE DEF p
<1>2. \A i \in 1..p - 1 : s[i] \in Char
  BY <1>1
<1>3. SubSeq(s, 1, p - 1) \in Seq(Char)
  BY <1>1, <1>2
<1>4. SubSeq(s, p + 1, Len(s)) \in Seq(Char)
  BY <1>1
<1> QED
  BY <1>3, <1>4 DEF Token, Rest, p

-----------------------------------------------------------------------------
(* Types that ownership does not need.                                     *)

Setting(vm, text, rest, accepted) ==
  [phase |-> "options", vm |-> vm, text |-> text, rest |-> rest,
   accepted |-> accepted]

\* A configuration in progress is made of texts.
OptionTypes ==
  call = Idle \/ \E vm \in Instance, text \in OptionText, rest \in Seq(Char),
                    accepted \in Seq(OptionPair) :
                   call = Setting(vm, text, rest, accepted)

MoreTypes ==
  /\ lastError \in Error \cup {NoMessage}
  /\ opened \in [Filename -> 0..MaxOpens]
  /\ returned \in [code : Code, vm : Instance \cup {NoVM}]
  /\ OptionTypes

\* They are the types the invariant leaves out.
LEMMA TypesFromParts == Inv /\ MoreTypes => TypeOK
<1> SUFFICES ASSUME Inv, MoreTypes, call # Idle
             PROVE  call \in [phase : {"options"}, vm : Instance,
                              text : OptionText, rest : Seq(Char),
                              accepted : Seq(OptionPair)]
  BY DEF Inv, MoreTypes, LoaderTypes, ObjectTypes, TypeOK
<1> QED
  BY DEF MoreTypes, OptionTypes, Setting

\* Loading opens a library that may be opened once more.
LEMMA OpenedTypes ==
  ASSUME MoreTypes, NEW f \in Filename, MayLoad(f)
  PROVE  OpenedBy(f) \in [Filename -> 0..MaxOpens]
<1>1. ASSUME f \in Creator PROVE opened[f] + 1 \in 0..MaxOpens
  BY <1>1, BoundsAssumption DEF MoreTypes, MayLoad
<1> QED
  BY <1>1 DEF MoreTypes, OpenedBy

\* The code and the messages of evmc_load are errors the header names.
LEMMA LoadTypes ==
  ASSUME NEW f
  PROVE  /\ LoadCode(f) \in Code
         /\ LoadMessages(f) \subseteq Error \cup {NoMessage}
<1>1. LoadCode(f) \in {"INVALID_ARGUMENT", "CANNOT_OPEN", "SYMBOL_NOT_FOUND",
                       "SUCCESS"}
  BY DEF LoadCode
<1>2. LoadCode(f) \in Code
  BY <1>1 DEF Code, Error
<1>3. LoadMessages(f) \subseteq {LoadCode(f), NoMessage} \ {"SUCCESS"}
  BY <1>1 DEF LoadMessages, Described, Reset, NoMessage
<1> QED
  BY <1>1, <1>2, <1>3 DEF Code, Error

\* evmc_load_and_create as far as it fails.
LEMMA FailureTypes ==
  ASSUME MoreTypes, NEW f \in Filename, MayLoad(f), CreationFails(f),
         UNCHANGED call
  PROVE  MoreTypes'
<1>1. opened' \in [Filename -> 0..MaxOpens]
  BY OpenedTypes DEF CreationFails
<1>2. lastError' \in Error \cup {NoMessage}
  BY LoadTypes DEF CreationFails, Described, Reset, Error
<1>3. returned' \in [code : Code, vm : Instance \cup {NoVM}]
  BY LoadTypes DEF CreationFails, Answer, Code, Error
<1>4. OptionTypes'
  BY DEF MoreTypes, OptionTypes
<1> QED
  BY <1>1, <1>2, <1>3, <1>4 DEF MoreTypes

\* Another option is set.
LEMMA OptionStep ==
  ASSUME MoreTypes, SetOption
  PROVE  MoreTypes'
<1>1. PICK vm \in Instance, text \in OptionText, rest \in Seq(Char),
           accepted \in Seq(OptionPair) :
             call = Setting(vm, text, rest, accepted)
  BY DEF MoreTypes, OptionTypes, SetOption
<1>2. CASE Refuse("INVALID_OPTION_NAME") \/ Refuse("INVALID_OPTION_VALUE")
  BY <1>2 DEF Refuse, MoreTypes, OptionTypes, Described, Answer, Error, Code
<1>3. ASSUME call' = [call EXCEPT !.rest = Rest(@, Comma),
               !.accepted = Append(@,
                 [name |-> Token(Token(call.rest, Comma), Equals),
                  value |-> Rest(Token(call.rest, Comma), Equals)])],
             UNCHANGED <<lastError, opened, returned>>
      PROVE  MoreTypes'
  <2> DEFINE option == Token(rest, Comma)
             pair == [name |-> Token(option, Equals),
                      value |-> Rest(option, Equals)]
  <2>1. option \in Seq(Char) /\ Rest(rest, Comma) \in Seq(Char)
    BY TokensAreTexts
  <2>2. pair \in OptionPair
    BY <2>1, TokensAreTexts DEF OptionPair
  <2> HIDE DEF pair
  <2>3. Append(accepted, pair) \in Seq(OptionPair)
    BY <2>2
  <2>4. call' = Setting(vm, text, Rest(rest, Comma), Append(accepted, pair))
    BY <1>1, <1>3 DEF Setting, pair
  <2>5. OptionTypes'
    BY <2>1, <2>3, <2>4 DEF OptionTypes
  <2> QED
    BY <1>3, <2>5 DEF MoreTypes
<1> QED
  BY <1>2, <1>3 DEF SetOption

\* Each step of the loader, but for setting options.
LEMMA LoaderTypesStep ==
  ASSUME Inv, MoreTypes, LoaderNext
  PROVE  MoreTypes'
<1>1. ASSUME NEW f \in Filename, Load(f) PROVE MoreTypes'
  <2>1. opened' \in [Filename -> 0..MaxOpens]
    BY <1>1, OpenedTypes DEF Load
  <2>2. lastError' \in Error \cup {NoMessage}
    BY <1>1, LoadTypes DEF Load
  <2>3. returned' \in [code : Code, vm : Instance \cup {NoVM}]
    BY <1>1, LoadTypes DEF Load, Answer
  <2> QED
    BY <1>1, <2>1, <2>2, <2>3 DEF MoreTypes, OptionTypes, Load
<1>2. ASSUME NEW f \in Filename, LoadAndCreate(f) PROVE MoreTypes'
  <2>1. CASE CreationFails(f)
    BY <1>2, <2>1, FailureTypes DEF LoadAndCreate
  <2>2. ASSUME NEW vm \in Instance, CreationSucceeds(f, vm),
               Answer("SUCCESS", vm)
        PROVE  MoreTypes'
    BY <1>2, <2>2, OpenedTypes
       DEF LoadAndCreate, CreationSucceeds, MoreTypes, OptionTypes, Answer,
           Code, Reset
  <2> QED
    BY <1>2, <2>1, <2>2 DEF LoadAndCreate
<1>3. ASSUME NEW f \in Filename, NEW text \in OptionText,
             LoadAndConfigure(f, text)
      PROVE  MoreTypes'
  <2>1. CASE CreationFails(f) /\ UNCHANGED call
    BY <1>3, <2>1, FailureTypes DEF LoadAndConfigure
  <2>2. ASSUME NEW vm \in Instance, CreationSucceeds(f, vm),
               call' = Setting(vm, text, text, <<>>), UNCHANGED returned
        PROVE  MoreTypes'
    <3>1. text \in Seq(Char) /\ <<>> \in Seq(OptionPair)
      BY TextAssumption
    <3>2. OptionTypes'
      BY <2>2, <3>1 DEF OptionTypes
    <3> QED
      BY <1>3, <2>2, <3>2, OpenedTypes
         DEF LoadAndConfigure, CreationSucceeds, MoreTypes, Reset
  <2> QED
    BY <1>3, <2>1, <2>2 DEF LoadAndConfigure, Setting
<1>4. ASSUME NoOptions PROVE MoreTypes'
  BY <1>4 DEF NoOptions, Refuse, MoreTypes, OptionTypes, Described, Answer,
              Error, Code
<1>5. ASSUME Configured PROVE MoreTypes'
  BY <1>5 DEF Configured, Inv, LoaderTypes, MoreTypes, OptionTypes, Answer,
              Code
<1>6. ASSUME LastErrorMsg \/ ConfigurationTooLong PROVE MoreTypes'
  BY <1>6 DEF LastErrorMsg, ConfigurationTooLong, MoreTypes, OptionTypes,
              Answer, Error, Code
<1>7. ASSUME \/ \E f \in Filename : CreateInstance(f)
             \/ \E vm \in Instance : Destroy(vm)
      PROVE  MoreTypes'
  BY <1>7 DEF CreateInstance, Destroy, MoreTypes, OptionTypes
<1> QED
  BY <1>1, <1>2, <1>3, <1>4, <1>5, <1>6, <1>7, OptionStep DEF LoaderNext

\* Steps of the C++ classes change none of these.
LEMMA ObjectFrame ==
  ASSUME Next, ~LoaderStep
  PROVE  UNCHANGED <<lastError, opened, returned, call>>
BY DEF Next, VMConstruct, VMDestruct, VMMoveConstruct, VMMoveAssign, VMStep,
       Execute, ResultConstruct, ResultDestruct, ReleaseRaw,
       ResultMoveConstruct, ResultMoveAssign, ReleaseResult, ResultStep,
       loaderVars

\* Every step keeps the types.
LEMMA MoreTypesStep == ASSUME Inv, MoreTypes, [Next]_vars PROVE MoreTypes'
<1>1. ASSUME UNCHANGED <<lastError, opened, returned, call>> PROVE MoreTypes'
  BY <1>1 DEF MoreTypes, OptionTypes
<1> QED
  BY <1>1, LoaderTypesStep, ObjectFrame DEF LoaderStep, vars, loaderVars

\* Every part of the state has its type: libraries are opened within their
\* bound, and what the options are split into are texts again.
THEOREM ClientTypes == Spec => []TypeOK
<1>1. Init => MoreTypes
  BY BoundsAssumption
     DEF Init, LoaderInit, MoreTypes, OptionTypes, Code, Error
<1>2. Inv /\ MoreTypes /\ [Next]_vars => MoreTypes'
  BY MoreTypesStep
<1> QED
  BY <1>1, <1>2, ClientInvariance, TypesFromParts, PTL DEF Spec

-----------------------------------------------------------------------------
(* What get_token splits.                                                  *)

\* The first delimiter is the one without another before it.
LEMMA PositionIsFirst ==
  ASSUME NEW s \in Seq(Char), NEW c, NEW p \in 1..Len(s) + 1,
         p <= Len(s) => s[p] = c,
         \A j \in 1..p - 1 : s[j] # c
  PROVE  Position(s, c) = p
<1> DEFINE First(i) == /\ i <= Len(s) => s[i] = c
                       /\ \A j \in 1..i - 1 : s[j] # c
<1>0. Len(s) \in Nat
  OBVIOUS
<1>1. First(p)
  OBVIOUS
<1>2. ASSUME NEW i \in 1..Len(s) + 1, First(i) PROVE i = p
  <2>1. CASE i < p
    <3>1. i \in 1..p - 1 /\ i <= Len(s)
      BY <1>0, <2>1
    <3> QED
      BY <1>2, <3>1
  <2>2. CASE p < i
    <3>1. p \in 1..i - 1 /\ p <= Len(s)
      BY <1>0, <2>2
    <3> QED
      BY <1>2, <3>1
  <2> QED
    BY <1>0, <2>1, <2>2
<1> HIDE DEF First
<1>3. (CHOOSE i \in 1..Len(s) + 1 : First(i)) = p
  BY <1>1, <1>2
<1> QED
  BY <1>3 DEF Position, First

\* A text before a delimiter is the token, the text behind it the rest.
LEMMA FirstToken ==
  ASSUME NEW a \in Seq(Char), NEW b \in Seq(Char), NEW c \in Char,
         Without(a, c)
  PROVE  Token(a \o <<c>> \o b, c) = a /\ Rest(a \o <<c>> \o b, c) = b
<1> DEFINE s == a \o <<c>> \o b
           n == Len(a)
<1>1. /\ n \in Nat /\ Len(b) \in Nat /\ s \in Seq(Char)
      /\ Len(s) = n + 1 + Len(b)
      /\ \A i \in 1..n : s[i] = a[i]
      /\ s[n + 1] = c
      /\ \A i \in 1..Len(b) : s[n + 1 + i] = b[i]
  OBVIOUS
<1> HIDE DEF s
<1>2. Position(s, c) = n + 1
  <2> DEFINE p == n + 1
  <2>1. p \in 1..Len(s) + 1
    BY <1>1
  <2>2. \A j \in 1..p - 1 : s[j] # c
    BY <1>1 DEF Without
  <2>3. s \in Seq(Char)
    BY <1>1
  <2>4. p <= Len(s) => s[p] = c
    BY <1>1
  <2> HIDE DEF p
  <2>5. Position(s, c) = p
    BY <2>1, <2>2, <2>3, <2>4, PositionIsFirst
  <2> QED
    BY <2>5 DEF p
<1>3. SubSeq(s, 1, n) = a
  BY <1>1
<1>4. SubSeq(s, n + 2, Len(s)) = b
  <2> DEFINE m == Len(b)
             p == n + 2
             q == Len(s)
             t == SubSeq(s, p, q)
  <2>1. /\ p \in Int /\ q \in Int
        /\ \A i \in p .. q : s[i] \in Char
        /\ q - p + 1 = m
        /\ (IF p <= q THEN q - p + 1 ELSE 0) = m
        /\ \A i \in 1..m : p + i - 1 = n + 1 + i
    BY <1>1
  <2> HIDE DEF p, q, m
  <2>2. /\ t \in Seq(Char)
        /\ Len(t) = IF p <= q THEN q - p + 1 ELSE 0
        /\ \A i \in 1 .. q - p + 1 : t[i] = s[p + i - 1]
    BY <2>1, SubSeqProperties
  <2> HIDE DEF t
  <2>3. Len(t) = Len(b) /\ \A i \in 1..Len(t) : t[i] = b[i]
    BY <1>1, <2>1, <2>2 DEF m
  <2>4. t = b
    BY <2>2, <2>3, SeqEqual
  <2> QED
    BY <2>4 DEF t, p, q
<1>5. n + 1 - 1 = n /\ n + 1 + 1 = n + 2
  BY <1>1
<1> QED
  BY <1>2, <1>3, <1>4, <1>5 DEF Token, Rest, s

\* A text without a delimiter is the token, and nothing is left.
LEMMA LastToken ==
  ASSUME NEW a \in Seq(Char), NEW c, Without(a, c)
  PROVE  Token(a, c) = a /\ Rest(a, c) = <<>>
<1>1. Len(a) \in Nat
  OBVIOUS
<1>2. Position(a, c) = Len(a) + 1
  <2>1. Len(a) + 1 \in 1..Len(a) + 1 /\ ~(Len(a) + 1 <= Len(a))
    BY <1>1
  <2>2. \A j \in 1..Len(a) + 1 - 1 : a[j] # c
    BY DEF Without
  <2> QED
    BY <2>1, <2>2, PositionIsFirst
<1>3. SubSeq(a, 1, Len(a) + 1 - 1) = a
  BY <1>1
<1>4. SubSeq(a, Len(a) + 1 + 1, Len(a)) = <<>>
  BY <1>1
<1> QED
  BY <1>2, <1>3, <1>4 DEF Token, Rest

\* An option as a list may have it.
OptionOK(o) ==
  /\ o \in OptionPair
  /\ o.name # <<>>
  /\ Without(o.name, Comma) /\ Without(o.name, Equals)
  /\ Without(o.value, Comma)

\* The second get_token takes a written option apart.
LEMMA WrittenIsSplit ==
  ASSUME NEW o, OptionOK(o)
  PROVE  /\ Written(o) \in Seq(Char) /\ Written(o) # <<>>
         /\ Without(Written(o), Comma)
         /\ [name |-> Token(Written(o), Equals),
             value |-> Rest(Written(o), Equals)] = o
<1> DEFINE n == o.name
           v == o.value
<1>1. /\ n \in Seq(Char) /\ v \in Seq(Char) /\ n # <<>>
      /\ Without(n, Comma) /\ Without(n, Equals) /\ Without(v, Comma)
      /\ o = [name |-> n, value |-> v]
  BY DEF OptionOK, OptionPair
<1>2. Comma \in Char /\ Equals \in Char /\ Comma # Equals
  BY TextAssumption
<1>3. Written(o) = IF v = <<>> THEN n ELSE n \o <<Equals>> \o v
  BY <1>1, <1>2 DEF Written
<1> HIDE DEF n, v
<1>4. CASE v = <<>>
  BY <1>1, <1>3, <1>4, LastToken
<1>5. CASE v # <<>>
  <2> DEFINE s == n \o <<Equals>> \o v
  <2>1. s \in Seq(Char) /\ s # <<>>
    BY <1>1, <1>2
  <2>2. Without(s, Comma)
    <3>1. ASSUME NEW i \in DOMAIN s PROVE s[i] # Comma
      <4>1. \/ i \in 1..Len(n) /\ s[i] = n[i]
            \/ i = Len(n) + 1 /\ s[i] = Equals
            \/ \E j \in 1..Len(v) : s[i] = v[j]
        <5>1. /\ Len(n) \in Nat /\ Len(v) \in Nat
              /\ DOMAIN s = 1..Len(n) + 1 + Len(v)
              /\ \A k \in 1..Len(n) : s[k] = n[k]
              /\ s[Len(n) + 1] = Equals
              /\ \A k \in 1..Len(v) : s[Len(n) + 1 + k] = v[k]
          BY <1>1, <1>2
        <5> HIDE DEF s
        <5>2. CASE i <= Len(n) + 1
          BY <5>1, <5>2
        <5>3. CASE i > Len(n) + 1
          <6> DEFINE l == Len(n)
                     m == Len(v)
          <6>1. l \in Nat /\ m \in Nat /\ i \in 1..l + 1 + m /\ i > l + 1
            BY <5>1, <5>3
          <6> HIDE DEF l, m
          <6>2. i - l - 1 \in 1..m /\ l + 1 + (i - l - 1) = i
            BY <6>1
          <6> QED
            BY <5>1, <6>2 DEF l, m
        <5> QED
          BY <5>1, <5>2, <5>3
      <4>2. DOMAIN n = 1..Len(n) /\ DOMAIN v = 1..Len(v)
        BY <1>1
      <4> HIDE DEF s
      <4> QED
        BY <1>1, <1>2, <4>1, <4>2 DEF Without
    <3> QED
      BY <3>1 DEF Without
  <2>3. Token(s, Equals) = n /\ Rest(s, Equals) = v
    BY <1>1, <1>2, FirstToken
  <2> QED
    BY <1>1, <1>3, <1>5, <2>1, <2>2, <2>3
<1> QED
  BY <1>4, <1>5

\* What is written from a list is what the recursion says.
LEMMA WrittenUnfold ==
  ASSUME NEW list, Len(list) \in Nat
  PROVE  \A i \in 1..Len(list) + 1 : WrittenFrom(list)[i] =
           IF i = Len(list) + 1 THEN <<>>
           ELSE IF i = Len(list) THEN Written(list[i])
           ELSE Written(list[i]) \o <<Comma>> \o WrittenFrom(list)[i + 1]
<1> DEFINE L == Len(list)
           Piece(f, i) == IF i = L + 1 THEN <<>>
                          ELSE IF i = L THEN Written(list[i])
                          ELSE Written(list[i]) \o <<Comma>> \o f[i + 1]
           IsText(f, k) == f = [i \in k..L + 1 |-> Piece(f, i)]
           T == {n \in 0..L : \E f : IsText(f, L + 1 - n)}
<1>1. 0 \in T
  <2> DEFINE g == [i \in L + 1..L + 1 |-> <<>>]
  <2>1. \A i \in L + 1..L + 1 : i = L + 1
    OBVIOUS
  <2>2. g = [i \in L + 1..L + 1 |-> Piece(g, i)]
    BY <2>1
  <2>3. IsText(g, L + 1)
    BY <2>2
  <2>4. L + 1 - 0 = L + 1 /\ 0 \in 0..L
    OBVIOUS
  <2> HIDE DEF IsText, g, L
  <2> QED
    BY <2>3, <2>4
<1>2. ASSUME NEW n \in 0..L - 1, n \in T PROVE n + 1 \in T
  <2>1. PICK f : IsText(f, L + 1 - n)
    BY <1>2
  <2> DEFINE k == L - n
             g == [i \in k..L + 1 |-> Piece(f, i)]
  <2>2. k \in 1..L /\ L + 1 - n = k + 1 /\ L + 1 - (n + 1) = k
        /\ n + 1 \in 0..L
    BY <1>2
  <2>3. \A i \in k + 1..L + 1 : f[i] = Piece(f, i)
    BY <2>1, <2>2
  <2> HIDE DEF k
  <2>4. ASSUME NEW i \in k..L + 1 PROVE g[i] = Piece(g, i)
    <3>1. CASE i \in {L, L + 1}
      BY <3>1
    <3>2. CASE i \notin {L, L + 1}
      <4>1. i + 1 \in k + 1..L + 1 /\ i + 1 \in k..L + 1
        BY <2>2, <3>2
      <4>2. g[i + 1] = f[i + 1]
        BY <2>3, <4>1
      <4> QED
        BY <3>2, <4>2
    <3> QED
      BY <3>1, <3>2
  <2> HIDE DEF Piece
  <2>5. IsText(g, k)
    BY <2>4
  <2> HIDE DEF IsText, g, L
  <2> QED
    BY <2>2, <2>5
<1>3. L \in T
  <2> HIDE DEF T
  <2>1. \A n \in 0..L - 1 : n \in T => n + 1 \in T
    BY <1>2
  <2>2. 0..L \subseteq T
    BY <1>1, <2>1, UpTo
  <2> QED
    BY <2>2
<1>4. L + 1 - L = 1
  OBVIOUS
<1>5. IsText(CHOOSE f : IsText(f, 1), 1)
  <2> HIDE DEF IsText
  <2> QED
    BY <1>3, <1>4
<1>6. IsText(WrittenFrom(list), 1)
  BY <1>5 DEF WrittenFrom
<1> HIDE DEF T
<1> QED
  BY <1>6

\* A text written from a list that has options holds the first of them and
\* what is written from the others.
LEMMA WrittenStep ==
  ASSUME NEW list \in OptionLists, NEW i \in 1..Len(list)
  PROVE  LET text == WrittenFrom(list)[i] IN
         /\ text # <<>>
         /\ Token(text, Comma) = Written(list[i])
         /\ Rest(text, Comma) = WrittenFrom(list)[i + 1]
<1> DEFINE L == Len(list)
           W == WrittenFrom(list)
           T == {n \in 0..L : W[L + 1 - n] \in Seq(Char)}
<1>1. L \in Nat /\ \A k \in 1..L : OptionOK(list[k])
  BY ListsAssumption DEF OptionOK
<1>2. \A k \in 1..L + 1 : W[k] =
        IF k = L + 1 THEN <<>> ELSE IF k = L THEN Written(list[k])
        ELSE Written(list[k]) \o <<Comma>> \o W[k + 1]
  BY <1>1, WrittenUnfold
<1>3. \A k \in 1..L : /\ Written(list[k]) \in Seq(Char)
                      /\ Written(list[k]) # <<>>
                      /\ Without(Written(list[k]), Comma)
  BY <1>1, WrittenIsSplit
<1>4. Comma \in Char
  BY TextAssumption
<1> HIDE DEF W, L
<1>5. 0 \in T
  <2>1. L + 1 - 0 = L + 1 /\ L + 1 \in 1..L + 1 /\ 0 \in 0..L
    BY <1>1
  <2>2. W[L + 1] = <<>> /\ <<>> \in Seq(Char)
    BY <1>2, <2>1
  <2>3. W[L + 1 - 0] \in Seq(Char)
    BY <2>1, <2>2
  <2> QED
    BY <2>1, <2>3
<1>6. ASSUME NEW n \in 0..L - 1, n \in T PROVE n + 1 \in T
  <2> DEFINE k == L - n
  <2>1. /\ k \in 1..L /\ k \in 1..L + 1 /\ k # L + 1 /\ n + 1 \in 0..L
        /\ L + 1 - n = k + 1 /\ L + 1 - (n + 1) = k
    BY <1>1, <1>6
  <2>2. W[k + 1] \in Seq(Char)
    BY <1>6, <2>1
  <2> HIDE DEF k
  <2>3. W[k] \in Seq(Char)
    <3>1. Written(list[k]) \in Seq(Char)
      BY <1>3, <2>1
    <3>2. \/ W[k] = Written(list[k])
          \/ W[k] = Written(list[k]) \o <<Comma>> \o W[k + 1]
      BY <1>2, <2>1
    <3>3. Written(list[k]) \o <<Comma>> \o W[k + 1] \in Seq(Char)
      BY <1>4, <2>2, <3>1
    <3> QED
      BY <3>1, <3>2, <3>3
  <2> QED
    BY <2>1, <2>3
<1>7. ASSUME NEW k \in 1..L + 1 PROVE W[k] \in Seq(Char)
  <2> HIDE DEF T
  <2>1. 0..L \subseteq T
    BY <1>1, <1>5, <1>6, UpTo
  <2>2. L + 1 - k \in 0..L /\ L + 1 - (L + 1 - k) = k
    BY <1>1, <1>7
  <2>3. L + 1 - k \in T
    BY <2>1, <2>2
  <2> QED
    BY <2>2, <2>3 DEF T
<1>8. i \in 1..L /\ i \in 1..L + 1 /\ i + 1 \in 1..L + 1 /\ i # L + 1
      /\ L + 1 \in 1..L + 1
  BY <1>1 DEF L
<1> DEFINE a == Written(list[i])
           b == W[i + 1]
<1>9. a \in Seq(Char) /\ a # <<>> /\ Without(a, Comma) /\ b \in Seq(Char)
  BY <1>3, <1>7, <1>8
<1>10. \/ W[i] = a /\ b = <<>>
       \/ W[i] = a \o <<Comma>> \o b
  BY <1>2, <1>8
<1> HIDE DEF a, b
<1>11. W[i] # <<>> /\ Token(W[i], Comma) = a /\ Rest(W[i], Comma) = b
  <2>1. CASE W[i] = a /\ b = <<>>
    BY <1>9, <2>1, LastToken
  <2>2. CASE W[i] = a \o <<Comma>> \o b
    <3>1. a \o <<Comma>> \o b # <<>>
      BY <1>4, <1>9
    <3> QED
      BY <1>4, <1>9, <2>2, <3>1, FirstToken
  <2> QED
    BY <1>10, <2>1, <2>2
<1> QED
  BY <1>11 DEF W, a, b

-----------------------------------------------------------------------------
(* Options.                                                                *)

\* How far the options of a list are accepted that call.text may be written
\* from: what is left is written from the others.
SplitOK ==
  call # Idle => \A list \in OptionLists :
    WrittenList(list) = call.text =>
      LET n == Len(call.accepted) IN
      /\ n <= Len(list)
      /\ call.accepted = SubSeq(list, 1, n)
      /\ call.rest = WrittenFrom(list)[n + 1]

\* What a list of accepted options becomes with the one a text holds.
Accepting(accepted, option) ==
  Append(accepted, [name |-> Token(option, Equals),
                    value |-> Rest(option, Equals)])

\* One option more is accepted.
LEMMA AcceptedStep ==
  ASSUME NEW list \in OptionLists, NEW n \in 0..Len(list),
         WrittenFrom(list)[n + 1] # <<>>
  PROVE  LET rest == WrittenFrom(list)[n + 1]
             more == Accepting(SubSeq(list, 1, n), Token(rest, Comma))
         IN /\ Len(more) = n + 1 /\ n + 1 <= Len(list)
            /\ more = SubSeq(list, 1, n + 1)
            /\ Rest(rest, Comma) = WrittenFrom(list)[n + 2]
<1> DEFINE rest == WrittenFrom(list)[n + 1]
<1>1. Len(list) \in Nat /\ list \in Seq(OptionPair)
  BY ListsAssumption
<1>2. n + 1 \in 1..Len(list)
  <2>1. CASE n = Len(list)
    <3>1. n + 1 = Len(list) + 1 /\ n + 1 \in 1..Len(list) + 1
      BY <1>1, <2>1
    <3> QED
      BY <1>1, <3>1, WrittenUnfold
  <2> QED
    BY <1>1, <2>1
<1>3. n + 1 + 1 = n + 2
  OBVIOUS
<1>4. /\ Token(rest, Comma) = Written(list[n + 1])
      /\ Rest(rest, Comma) = WrittenFrom(list)[n + 2]
  BY <1>2, <1>3, WrittenStep
<1>5. OptionOK(list[n + 1])
  BY <1>2, ListsAssumption DEF OptionOK
<1>6. [name |-> Token(Written(list[n + 1]), Equals),
       value |-> Rest(Written(list[n + 1]), Equals)] = list[n + 1]
  BY <1>5, WrittenIsSplit
<1>7. /\ Append(SubSeq(list, 1, n), list[n + 1]) = SubSeq(list, 1, n + 1)
      /\ Len(SubSeq(list, 1, n + 1)) = n + 1
  BY <1>1, <1>2
<1> QED
  BY <1>2, <1>4, <1>6, <1>7 DEF Accepting

\* A configuration starts with nothing accepted and everything left.
LEMMA StartSplit ==
  ASSUME NEW vm, NEW text, call' = Setting(vm, text, text, <<>>)
  PROVE  SplitOK'
<1>1. /\ call'.text = text /\ call'.rest = text /\ call'.accepted = <<>>
      /\ Len(call'.accepted) = 0
  BY DEF Setting
<1>2. ASSUME NEW list \in OptionLists, WrittenList(list) = text
      PROVE  /\ 0 <= Len(list) /\ <<>> = SubSeq(list, 1, 0)
             /\ text = WrittenFrom(list)[0 + 1]
  <2>1. list \in Seq(OptionPair)
    BY ListsAssumption
  <2> QED
    BY <1>2, <2>1 DEF WrittenList
<1> QED
  BY <1>1, <1>2 DEF SplitOK

\* Every step keeps what is accepted and what is left together.
LEMMA SplitStep ==
  ASSUME MoreTypes, SplitOK, [Next]_vars
  PROVE  SplitOK'
<1>1. CASE UNCHANGED call
  BY <1>1 DEF SplitOK
<1>2. CASE call' = Idle
  BY <1>2 DEF SplitOK
<1>3. ASSUME NEW f \in Filename, NEW text \in OptionText,
             LoadAndConfigure(f, text), call' # call
      PROVE  SplitOK'
  <2>1. PICK vm \in Instance : call' = Setting(vm, text, text, <<>>)
    BY <1>3 DEF LoadAndConfigure, Setting
  <2> QED
    BY <2>1, StartSplit
<1>4. ASSUME SetOption, call' # Idle
      PROVE  SplitOK'
  <2> DEFINE option == Token(call.rest, Comma)
             more == Append(call.accepted,
                            [name |-> Token(option, Equals),
                             value |-> Rest(option, Equals)])
             rest == Rest(call.rest, Comma)
  <2>1. /\ call # Idle /\ call.rest # <<>>
        /\ call' = [call EXCEPT !.rest = rest, !.accepted = more]
    BY <1>4 DEF SetOption, Refuse
  <2>2. PICK vm \in Instance, text \in OptionText, r \in Seq(Char),
             a \in Seq(OptionPair) : call = Setting(vm, text, r, a)
    BY <2>1 DEF MoreTypes, OptionTypes
  <2> HIDE DEF rest, more
  <2>3. call'.text = call.text /\ call'.rest = rest /\ call'.accepted = more
    BY <2>1, <2>2 DEF Setting
  <2>4. ASSUME NEW list \in OptionLists, WrittenList(list) = call.text
        PROVE  /\ Len(more) <= Len(list)
               /\ more = SubSeq(list, 1, Len(more))
               /\ rest = WrittenFrom(list)[Len(more) + 1]
    <3> DEFINE n == Len(call.accepted)
    <3>1. /\ n <= Len(list)
          /\ call.accepted = SubSeq(list, 1, n)
          /\ call.rest = WrittenFrom(list)[n + 1]
      BY <2>1, <2>4 DEF SplitOK
    <3>2. call.accepted \in Seq(OptionPair)
      BY <2>2 DEF Setting
    <3>3. n \in Nat /\ Len(list) \in Nat
      BY <3>2, ListsAssumption
    <3> HIDE DEF n
    <3>4. n \in 0..Len(list)
      BY <3>1, <3>3
    <3>5. /\ Len(more) = n + 1 /\ n + 1 <= Len(list)
          /\ more = SubSeq(list, 1, n + 1)
          /\ rest = WrittenFrom(list)[n + 2]
      <4>1. WrittenFrom(list)[n + 1] # <<>>
        BY <2>1, <3>1
      <4>2. more = Accepting(SubSeq(list, 1, n),
                             Token(WrittenFrom(list)[n + 1], Comma))
        BY <3>1 DEF more, Accepting
      <4>3. rest = Rest(WrittenFrom(list)[n + 1], Comma)
        BY <3>1 DEF rest
      <4> QED
        BY <3>4, <4>1, <4>2, <4>3, AcceptedStep
    <3>6. n + 1 + 1 = n + 2
      BY <3>3
    <3> QED
      BY <3>5, <3>6
  <2> QED
    BY <2>3, <2>4 DEF SplitOK
<1>5. ASSUME LoaderNext PROVE SplitOK'
  <2>1. \/ UNCHANGED call
        \/ call' = Idle
        \/ SetOption
        \/ \E f \in Filename, text \in OptionText : LoadAndConfigure(f, text)
    BY <1>5 DEF LoaderNext, Load, LoadAndCreate, CreateInstance,
                ConfigurationTooLong, NoOptions, Refuse, Configured,
                LastErrorMsg, Destroy
  <2> QED
    BY <1>1, <1>2, <1>3, <1>4, <2>1
<1> QED
  BY <1>1, <1>5, ObjectFrame DEF LoaderStep, vars, loaderVars

\* The options a configured instance has accepted are those the configuration
\* was written from, for any list of options without delimiters in names, and
\* without commas in values: splitting undoes writing.
THEOREM OptionsAreAsWritten == Spec => OptionsAsWritten
<1>1. Init => MoreTypes /\ SplitOK
  BY BoundsAssumption
     DEF Init, LoaderInit, MoreTypes, OptionTypes, Code, Error, SplitOK
<1>2. Inv /\ MoreTypes /\ SplitOK /\ [Next]_vars => MoreTypes' /\ SplitOK'
  BY MoreTypesStep, SplitStep
<1>3. ASSUME MoreTypes, SplitOK, [Next]_vars,
             call # Idle, call' = Idle, returned'.code = "SUCCESS",
             NEW list \in OptionLists, WrittenList(list) = call.text
      PROVE  call.accepted = list
  <2>1. Configured
    <3>1. ASSUME NEW code \in {"INVALID_OPTION_NAME", "INVALID_OPTION_VALUE"},
                 Refuse(code)
          PROVE  FALSE
      BY <1>3, <3>1 DEF Refuse, Answer
    <3>2. LoaderNext
      BY <1>3, ObjectFrame DEF LoaderStep, vars, loaderVars
    <3>3. ASSUME SetOption PROVE FALSE
      <4>1. PICK vm \in Instance, text \in OptionText, r \in Seq(Char),
                 a \in Seq(OptionPair) : call = Setting(vm, text, r, a)
        BY <1>3 DEF MoreTypes, OptionTypes
      <4>2. PICK rest, more :
              call' = [call EXCEPT !.rest = rest, !.accepted = more]
        BY <3>1, <3>3 DEF SetOption
      <4>3. call'.phase = "options"
        BY <4>1, <4>2 DEF Setting
      <4> QED
        BY <1>3, <4>3 DEF Idle
    <3> QED
      BY <1>3, <3>1, <3>2, <3>3
      DEF LoaderNext, Load, LoadAndCreate, CreateInstance, LoadAndConfigure,
          MayLoad, ConfigurationTooLong, NoOptions, LastErrorMsg, Destroy
  <2> DEFINE n == Len(call.accepted)
  <2>2. /\ n <= Len(list)
        /\ call.accepted = SubSeq(list, 1, n)
        /\ <<>> = WrittenFrom(list)[n + 1]
    BY <1>3, <2>1 DEF SplitOK, Configured
  <2>3. n \in Nat /\ Len(list) \in Nat /\ list \in Seq(OptionPair)
    BY <1>3, ListsAssumption DEF MoreTypes, OptionTypes, Setting
  <2> HIDE DEF n
  <2>4. n = Len(list)
    <3> SUFFICES ASSUME n # Len(list) PROVE FALSE
      OBVIOUS
    <3>1. n + 1 \in 1..Len(list)
      BY <2>2, <2>3
    <3> QED
      BY <2>2, <3>1, WrittenStep
  <2>5. SubSeq(list, 1, Len(list)) = list
    BY <2>3
  <2> QED
    BY <2>2, <2>4, <2>5
<1>4. MoreTypes /\ SplitOK /\ [Next]_vars =>
        [call # Idle /\ call' = Idle /\ returned'.code = "SUCCESS" =>
           \A list \in OptionLists :
             WrittenList(list) = call.text => call.accepted = list]_vars
  BY <1>3
<1> QED
  BY <1>1, <1>2, <1>4, ClientInvariance, PTL DEF Spec, OptionsAsWritten
=============================================================================
