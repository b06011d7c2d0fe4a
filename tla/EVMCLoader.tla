----------------------------- MODULE EVMCLoader -----------------------------
(***************************************************************************)
(* The EVMC loader (utils/evmc/lib/loader/loader.c): how a client finds a  *)
(* VM in a shared library, creates and configures an instance, and asks    *)
(* for the last error message.  The functions are synchronous and not      *)
(* thread-safe; evmc_load_and_configure is cut at each call of the VM's    *)
(* set_option, the others are one action.                                  *)
(*                                                                         *)
(* A file name is a model value; which of them can be opened, export a     *)
(* create function, and so on, are constants.  A message is the code of    *)
(* the error it describes.                                                 *)
(***************************************************************************)
EXTENDS Integers, Sequences

CONSTANTS
  Filename,       \* arguments of evmc_load
  Valid,          \* neither NULL, nor empty, nor too long
  Openable,       \* files dlopen can open
  Creator,        \* libraries with one of the two create functions
  Compatible,     \* libraries whose instances have this ABI version
  Configurable,   \* libraries whose instances have a set_option
  Instance,       \* instances that can ever be created (a bound)
  Char,           \* characters of a configuration string
  Comma, Equals,  \* ',' and '=' among them
  OptionText,     \* what may follow the path and its comma
  MaxOpens        \* how often a library is loaded (a bound)

ASSUME FilesAssumption ==
  /\ Valid \subseteq Filename
  /\ Openable \subseteq Valid
  /\ Creator \subseteq Openable
  /\ Compatible \subseteq Creator
  /\ Configurable \subseteq Creator
ASSUME TextAssumption ==
  /\ {Comma, Equals} \subseteq Char /\ Comma # Equals
  /\ OptionText \subseteq Seq(Char)
ASSUME BoundsAssumption == MaxOpens \in Nat

VARIABLES
  lastError,   \* last_error_msg
  opened,      \* references to each library (dlopen less dlclose)
  origin,      \* the library an instance was created by
  destroys,    \* how often an instance was destroyed
  call,        \* evmc_load_and_configure in progress; text and accepted (the
               \* options the VM accepted) are history
  returned,    \* what the last loader function returned
  functions,   \* libraries whose create function the client holds
  raw          \* instances the client holds a raw pointer to

loaderVars ==
  <<lastError, opened, origin, destroys, call, returned, functions, raw>>

NoMessage == "no message"
NoFile == "no file"
NoVM == "no VM"
Idle == [phase |-> "idle"]

Error ==
  {"CANNOT_OPEN", "SYMBOL_NOT_FOUND", "INVALID_ARGUMENT",
   "VM_CREATION_FAILURE", "ABI_VERSION_MISMATCH", "INVALID_OPTION_NAME",
   "INVALID_OPTION_VALUE"}
Code == Error \cup {"SUCCESS"}

OptionPair == [name : Seq(Char), value : Seq(Char)]

ASSUME NamesAssumption == NoFile \notin Filename /\ NoVM \notin Instance

LoaderInit ==
  /\ lastError = NoMessage
  /\ opened = [f \in Filename |-> 0]
  /\ origin = [vm \in Instance |-> NoFile]
  /\ destroys = [vm \in Instance |-> 0]
  /\ call = Idle
  /\ returned = [code |-> "SUCCESS", vm |-> NoVM]
  /\ functions = {}
  /\ raw = {}

-----------------------------------------------------------------------------
(* Splitting the configuration string.                                     *)

\* The position of the first c in s, one past the end when there is none.
Position(s, c) ==
  CHOOSE i \in 1..Len(s) + 1 :
    /\ i <= Len(s) => s[i] = c
    /\ \A j \in 1..i - 1 : s[j] # c

\* get_token: what precedes the delimiter, and what follows it.
Token(s, c) == SubSeq(s, 1, Position(s, c) - 1)

\* Bug: slides onto the delimiter instead of past it, unless it is at once.
RestKeepsDelimiter(s, c) ==
  SubSeq(s, IF Position(s, c) = 1 THEN 2 ELSE Position(s, c), Len(s))

Rest(s, c) == SubSeq(s, Position(s, c) + 1, Len(s))

-----------------------------------------------------------------------------
(* Messages.                                                               *)

\* Bug: evmc_load keeps the message of an earlier error.
ResetForgotten == lastError

\* What evmc_load resets last_error_msg to.
Reset == NoMessage

\* set_error with a message that quotes names: one that does not fit its
\* buffer is not recorded.
Described(before, code) == {before, code}

\* evmc_last_error_msg hands the message out once.
LastErrorMsg ==
  /\ call = Idle
  /\ lastError' = NoMessage
  /\ UNCHANGED <<opened, origin, destroys, call, returned, functions,
                 raw>>

-----------------------------------------------------------------------------
(* Loading and creating.                                                   *)

\* evmc_load: the error code.
LoadCode(f) ==
  CASE f \notin Valid -> "INVALID_ARGUMENT"
    [] f \in Valid \ Openable -> "CANNOT_OPEN"
    [] f \in Openable \ Creator -> "SYMBOL_NOT_FOUND"
    [] OTHER -> "SUCCESS"

\* evmc_load: last_error_msg (for a file that cannot be opened dlerror's text,
\* if there is one).
LoadMessages(f) ==
  LET code == LoadCode(f) IN
  CASE code = "SUCCESS" -> {Reset}
    [] code = "INVALID_ARGUMENT" -> {code}
    [] OTHER -> Described(Reset, code)

\* Bug: the library is closed although its create function is returned.
ClosedAgain(f) == opened

\* References after evmc_load: dlclose when there is no create function.
OpenedBy(f) ==
  IF f \in Creator THEN [opened EXCEPT ![f] = @ + 1] ELSE opened

\* Bug: a library without a create function yields one all the same.
FoundAnyway(f) == {f}

\* The create function evmc_load returns, if it is not NULL.
Found(f) == {f} \cap Creator

Answer(code, vm) == returned' = [code |-> code, vm |-> vm]

\* Loader functions are called one at a time.
MayLoad(f) == call = Idle /\ (f \in Creator => opened[f] < MaxOpens)

\* evmc_load: the client gets a create function.
Load(f) ==
  /\ MayLoad(f)
  /\ lastError' \in LoadMessages(f)
  /\ opened' = OpenedBy(f)
  /\ Answer(LoadCode(f), NoVM)
  /\ functions' = functions \cup Found(f)
  /\ UNCHANGED <<origin, destroys, call, raw>>

Fresh == {vm \in Instance : origin[vm] = NoFile}

\* evmc_load_and_create as far as it fails: evmc_load, then the create
\* function that returns NULL, then an instance of another ABI version,
\* which is destroyed.
CreationFails(f) ==
  /\ opened' = OpenedBy(f)
  /\ UNCHANGED <<functions, raw>>
  /\ \/ /\ f \notin Creator
        /\ lastError' \in LoadMessages(f)
        /\ Answer(LoadCode(f), NoVM)
        /\ UNCHANGED <<origin, destroys>>
     \/ /\ f \in Creator
        /\ lastError' \in Described(Reset, "VM_CREATION_FAILURE")
        /\ Answer("VM_CREATION_FAILURE", NoVM)
        /\ UNCHANGED <<origin, destroys>>
     \/ /\ f \in Creator \ Compatible
        /\ lastError' \in Described(Reset, "ABI_VERSION_MISMATCH")
        /\ Answer("ABI_VERSION_MISMATCH", NoVM)
        /\ \E vm \in Fresh :
             /\ origin' = [origin EXCEPT ![vm] = f]
             /\ destroys' = [destroys EXCEPT ![vm] = @ + 1]

\* evmc_load_and_create as far as it succeeds.
CreationSucceeds(f, vm) ==
  /\ f \in Compatible /\ vm \in Fresh
  /\ opened' = OpenedBy(f)
  /\ lastError' = Reset
  /\ origin' = [origin EXCEPT ![vm] = f]
  /\ UNCHANGED <<destroys, functions>>

LoadAndCreate(f) ==
  /\ MayLoad(f)
  /\ UNCHANGED call
  /\ \/ CreationFails(f)
     \/ \E vm \in Instance :
          /\ CreationSucceeds(f, vm)
          /\ Answer("SUCCESS", vm)
          /\ raw' = raw \cup {vm}

-----------------------------------------------------------------------------
(* Configuring.                                                            *)

\* The configuration does not fit the loader's copy of it.
ConfigurationTooLong ==
  /\ call = Idle
  /\ lastError' = "INVALID_ARGUMENT"
  /\ Answer("INVALID_ARGUMENT", NoVM)
  /\ UNCHANGED <<opened, origin, destroys, call, functions, raw>>

\* evmc_load_and_configure up to the loop: f is the path before the first
\* comma, text what follows it.
LoadAndConfigure(f, text) ==
  /\ MayLoad(f)
  /\ \/ CreationFails(f) /\ UNCHANGED call
     \/ \E vm \in Instance :
          /\ CreationSucceeds(f, vm)
          /\ call' = [phase |-> "options", vm |-> vm, text |-> text,
                      rest |-> text, accepted |-> <<>>]
          /\ UNCHANGED <<returned, raw>>

\* Bug: an instance that refuses an option is neither returned nor destroyed.
KeepsRefused(vm) == destroys

DestroysRefused(vm) == [destroys EXCEPT ![vm] = @ + 1]

\* "goto exit": the error is reported, the instance destroyed.
Refuse(code) ==
  /\ lastError' \in Described(lastError, code)
  /\ destroys' = DestroysRefused(call.vm)
  /\ Answer(code, NoVM)
  /\ call' = Idle
  /\ UNCHANGED <<opened, origin, functions, raw>>

\* One iteration of the loop: the VM accepts the option or refuses it.
SetOption ==
  /\ call # Idle /\ call.rest # <<>>
  /\ origin[call.vm] \in Configurable
  /\ \/ LET option == Token(call.rest, Comma) IN
        /\ call' = [call EXCEPT !.rest = Rest(@, Comma),
             !.accepted = Append(@, [name |-> Token(option, Equals),
                                     value |-> Rest(option, Equals)])]
        /\ UNCHANGED <<lastError, opened, origin, destroys, returned,
                       functions, raw>>
     \/ Refuse("INVALID_OPTION_NAME")
     \/ Refuse("INVALID_OPTION_VALUE")

\* Options for a VM without set_option.
NoOptions ==
  /\ call # Idle /\ call.rest # <<>>
  /\ origin[call.vm] \notin Configurable
  /\ Refuse("INVALID_OPTION_NAME")

\* No option is left: the instance is returned.
Configured ==
  /\ call # Idle /\ call.rest = <<>>
  /\ Answer("SUCCESS", call.vm)
  /\ raw' = raw \cup {call.vm}
  /\ call' = Idle
  /\ UNCHANGED <<lastError, opened, origin, destroys, functions>>

-----------------------------------------------------------------------------
(* The client with what it was given.                                      *)

\* It calls a create function itself.
CreateInstance(f) ==
  /\ call = Idle /\ f \in functions
  /\ \E vm \in Fresh :
       /\ origin' = [origin EXCEPT ![vm] = f]
       /\ raw' = raw \cup {vm}
  /\ UNCHANGED <<lastError, opened, destroys, call, returned,
                 functions>>

\* evmc_destroy on a raw pointer, which it then forgets.
Destroy(vm) ==
  /\ call = Idle /\ vm \in raw
  /\ destroys' = [destroys EXCEPT ![vm] = @ + 1]
  /\ raw' = raw \ {vm}
  /\ UNCHANGED <<lastError, opened, origin, call, returned,
                 functions>>

LoaderNext ==
  \/ \E f \in Filename : \/ Load(f)
                          \/ LoadAndCreate(f)
                          \/ CreateInstance(f)
                          \/ \E text \in OptionText : LoadAndConfigure(f, text)
  \/ ConfigurationTooLong
  \/ SetOption \/ NoOptions \/ Configured
  \/ LastErrorMsg
  \/ \E vm \in Instance : Destroy(vm)
=============================================================================
