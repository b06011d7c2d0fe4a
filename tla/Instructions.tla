---------------------------- MODULE Instructions ----------------------------
(***************************************************************************)
(* The instruction tables of EVMC's lib/instructions: for each revision,   *)
(* which opcodes have a name and what each costs, needs and leaves on the  *)
(* stack.  The code keeps each table in full; here a revision is the one   *)
(* before it with what it changed.  A client (external) that interprets    *)
(* EVM code reads the tables: it runs one program under two revisions.     *)
(***************************************************************************)
EXTENDS Integers

CONSTANTS
  StackLimit,   \* items an EVM stack may hold
  ExtraCap      \* bound on the difference of cost that is counted

ASSUME StackAssumption == StackLimit \in Nat
ASSUME CapAssumption == ExtraCap \in Nat

Opcode == \h00..\hff

\* enum evmc_opcode: the opcodes the tables treat on their own.
OP_STOP == \h00
OP_BALANCE == \h31
OP_EXTCODESIZE == \h3b
OP_EXTCODECOPY == \h3c
OP_RETURNDATASIZE == \h3d
OP_RETURNDATACOPY == \h3e
OP_EXTCODEHASH == \h3f
OP_CHAINID == \h46
OP_SELFBALANCE == \h47
OP_SLOAD == \h54
OP_DUP1 == \h80
OP_SWAP1 == \h90
OP_LOG0 == \ha0
OP_CREATE == \hf0
OP_CALL == \hf1
OP_CALLCODE == \hf2
OP_DELEGATECALL == \hf4
OP_CREATE2 == \hf5
OP_STATICCALL == \hfa
OP_REVERT == \hfd
OP_INVALID == \hfe
OP_SELFDESTRUCT == \hff

\* What an int16_t holds of a number.
Int16(n) == ((n + 32768) % 65536) - 32768

\* struct evmc_instruction_metrics.
Metrics(cost, required, change) ==
  [gas_cost |-> Int16(cost),
   stack_height_required |-> required,
   stack_height_change |-> change]

UNDEFINED == Metrics(0, 0, 0)

\* Price tiers of the Yellow Paper.
ZERO == 0
BASE == 2
VERYLOW == 3
LOW == 5
MID == 8
HIGH == 10

\* The rows of frontier_metrics, section by section.
Arithmetic(op) ==
  CASE op \in {\h01, \h03} \cup \h10..\h14 \cup \h16..\h18 \cup {\h1a} ->
         Metrics(VERYLOW, 2, -1)
    [] op \in {\h02, \h04, \h05, \h06, \h07, \h0b} -> Metrics(LOW, 2, -1)
    [] op \in {\h08, \h09} -> Metrics(MID, 3, -2)
    [] op = \h0a -> Metrics(HIGH, 2, -1)
    [] op \in {\h15, \h19} -> Metrics(VERYLOW, 1, 0)
    [] op = \h20 -> Metrics(30, 2, -1)
    [] OTHER -> UNDEFINED

Environmental(op) ==
  CASE op \in {\h30, \h32, \h33, \h34, \h36, \h38, \h3a} \cup \h41..\h45 ->
         Metrics(BASE, 0, 1)
    [] op \in {OP_BALANCE, OP_EXTCODESIZE, \h40} -> Metrics(20, 1, 0)
    [] op = \h35 -> Metrics(VERYLOW, 1, 0)
    [] op \in {\h37, \h39} -> Metrics(VERYLOW, 3, -3)
    [] op = OP_EXTCODECOPY -> Metrics(20, 4, -4)
    [] OTHER -> UNDEFINED

StorageAndFlow(op) ==
  CASE op = \h50 -> Metrics(BASE, 1, -1)
    [] op = \h51 -> Metrics(VERYLOW, 1, 0)
    [] op \in {\h52, \h53} -> Metrics(VERYLOW, 2, -2)
    [] op = OP_SLOAD -> Metrics(50, 1, 0)
    [] op = \h55 -> Metrics(ZERO, 2, -2)
    [] op = \h56 -> Metrics(MID, 1, -1)
    [] op = \h57 -> Metrics(HIGH, 2, -2)
    [] op \in \h58..\h5a -> Metrics(BASE, 0, 1)
    [] op = \h5b -> Metrics(1, 0, 0)

\* PUSH1 to PUSH32, DUP1 to DUP16 and SWAP1 to SWAP16.
StackItems(op) ==
  CASE op \in \h60..\h7f -> Metrics(VERYLOW, 0, 1)
    [] op \in \h80..\h8f -> Metrics(VERYLOW, op - OP_DUP1 + 1, 1)
    [] op \in \h90..\h9f -> Metrics(VERYLOW, op - OP_SWAP1 + 2, 0)

\* Bug: one of the two items that say where the data is is not required.
LogsWithoutLength(op) ==
  LET n == op - OP_LOG0 IN Metrics((n + 1) * 375, n + 1, -(n + 2))

\* LOG0 to LOG4.
Logs(op) ==
  LET n == op - OP_LOG0 IN Metrics((n + 1) * 375, n + 2, -(n + 2))

System(op) ==
  CASE op = OP_CREATE -> Metrics(32000, 3, -2)
    [] op \in {OP_CALL, OP_CALLCODE} -> Metrics(40, 7, -6)
    [] op = \hf3 -> Metrics(ZERO, 2, -2)
    [] op = OP_SELFDESTRUCT -> Metrics(ZERO, 1, -1)
    [] OTHER -> UNDEFINED

frontier_metrics ==
  [op \in Opcode |->
     CASE op \in \h00..\h2f -> Arithmetic(op)
       [] op \in \h30..\h4f -> Environmental(op)
       [] op \in \h50..\h5b -> StorageAndFlow(op)
       [] op \in \h60..\h9f -> StackItems(op)
       [] op \in \ha0..\ha4 -> Logs(op)
       [] op \in \hf0..\hff -> System(op)
       [] OTHER -> UNDEFINED]

homestead_metrics ==
  [frontier_metrics EXCEPT ![OP_DELEGATECALL] = Metrics(40, 6, -5)]

\* The same metrics at another cost.
Repriced(metrics, cost) == [metrics EXCEPT !.gas_cost = Int16(cost)]

tangerine_whistle_metrics ==
  [homestead_metrics EXCEPT
     ![OP_BALANCE] = Repriced(@, 400),
     ![OP_EXTCODESIZE] = Repriced(@, 700),
     ![OP_EXTCODECOPY] = Repriced(@, 700),
     ![OP_SLOAD] = Repriced(@, 200),
     ![OP_CALL] = Repriced(@, 700),
     ![OP_CALLCODE] = Repriced(@, 700),
     ![OP_DELEGATECALL] = Repriced(@, 700),
     ![OP_SELFDESTRUCT] = Repriced(@, 5000)]

byzantium_metrics ==
  [tangerine_whistle_metrics EXCEPT
     ![OP_RETURNDATASIZE] = Metrics(BASE, 0, 1),
     ![OP_RETURNDATACOPY] = Metrics(VERYLOW, 3, -3),
     ![OP_STATICCALL] = Metrics(700, 6, -5),
     ![OP_REVERT] = Metrics(ZERO, 2, -2)]

constantinople_metrics ==
  [byzantium_metrics EXCEPT
     ![\h1b] = Metrics(VERYLOW, 2, -1),
     ![\h1c] = Metrics(VERYLOW, 2, -1),
     ![\h1d] = Metrics(VERYLOW, 2, -1),
     ![OP_EXTCODEHASH] = Metrics(400, 1, 0),
     ![OP_CREATE2] = Metrics(32000, 4, -3)]

\* Bug: a new opcode is named but has no metrics.
WithoutSelfBalance ==
  [constantinople_metrics EXCEPT
     ![OP_BALANCE] = Repriced(@, 700),
     ![OP_EXTCODEHASH] = Repriced(@, 700),
     ![OP_CHAINID] = Metrics(BASE, 0, 1),
     ![OP_SLOAD] = Repriced(@, 800)]

istanbul_metrics ==
  [constantinople_metrics EXCEPT
     ![OP_BALANCE] = Repriced(@, 700),
     ![OP_EXTCODEHASH] = Repriced(@, 700),
     ![OP_CHAINID] = Metrics(BASE, 0, 1),
     ![OP_SELFBALANCE] = Metrics(LOW, 0, 1),
     ![OP_SLOAD] = Repriced(@, 800)]

-----------------------------------------------------------------------------
(* The name tables.  A name is a string that tells nothing but that the    *)
(* opcode has one: a table is the set of opcodes whose entry is not NULL.  *)

frontier_names ==
  \h00..\h0b \cup \h10..\h1a \cup {\h20} \cup (\h30..\h45 \ \h3d..\h3f)
    \cup \h50..\h5b \cup \h60..\ha4 \cup \hf0..\hf3
    \cup {OP_INVALID, OP_SELFDESTRUCT}

homestead_names == frontier_names \cup {OP_DELEGATECALL}

\* Bug: the opcode of the revision before is not carried over.
WithoutDelegateCall ==
  frontier_names
    \cup {OP_RETURNDATASIZE, OP_RETURNDATACOPY, OP_STATICCALL, OP_REVERT}

byzantium_names ==
  homestead_names
    \cup {OP_RETURNDATASIZE, OP_RETURNDATACOPY, OP_STATICCALL, OP_REVERT}

constantinople_names ==
  byzantium_names \cup \h1b..\h1d \cup {OP_EXTCODEHASH, OP_CREATE2}

istanbul_names == constantinople_names \cup {OP_CHAINID, OP_SELFBALANCE}

-----------------------------------------------------------------------------
(* The lookups.                                                            *)

EVMC_FRONTIER == 0
EVMC_HOMESTEAD == 1
EVMC_TANGERINE_WHISTLE == 2
EVMC_SPURIOUS_DRAGON == 3
EVMC_BYZANTIUM == 4
EVMC_CONSTANTINOPLE == 5
EVMC_PETERSBURG == 6
EVMC_ISTANBUL == 7
EVMC_BERLIN == 8
Revision == EVMC_FRONTIER..EVMC_BERLIN

\* evmc_get_instruction_metrics_table.
MetricsTable(revision) ==
  CASE revision \in {EVMC_ISTANBUL, EVMC_BERLIN} -> istanbul_metrics
    [] revision \in {EVMC_PETERSBURG, EVMC_CONSTANTINOPLE} ->
         constantinople_metrics
    [] revision = EVMC_BYZANTIUM -> byzantium_metrics
    [] revision \in {EVMC_SPURIOUS_DRAGON, EVMC_TANGERINE_WHISTLE} ->
         tangerine_whistle_metrics
    [] revision = EVMC_HOMESTEAD -> homestead_metrics
    [] revision = EVMC_FRONTIER -> frontier_metrics

\* evmc_get_instruction_names_table.
NamesTable(revision) ==
  CASE revision \in {EVMC_ISTANBUL, EVMC_BERLIN} -> istanbul_names
    [] revision \in {EVMC_PETERSBURG, EVMC_CONSTANTINOPLE} ->
         constantinople_names
    [] revision = EVMC_BYZANTIUM -> byzantium_names
    [] revision \in {EVMC_SPURIOUS_DRAGON, EVMC_TANGERINE_WHISTLE,
                     EVMC_HOMESTEAD} -> homestead_names
    [] revision = EVMC_FRONTIER -> frontier_names

-----------------------------------------------------------------------------
(* The client: one program under an older and a newer revision.            *)

VARIABLES
  older, newer,   \* the revisions
  height,         \* [ {"older", "newer"} -> items on the stack ]
  extra,          \* what the newer run cost more
  upset           \* the newer run failed where the older one went on
instructionVars == <<older, newer, height, extra, upset>>

InstructionsInit ==
  /\ older \in Revision
  /\ newer \in {r \in Revision : r >= older}
  /\ height = [run \in {"older", "newer"} |-> 0]
  /\ extra = 0
  /\ upset = FALSE

\* A client goes on with an opcode that has a name, that the stack is high
\* enough for and that does not overflow it.
Executable(revision, op, h) ==
  LET m == MetricsTable(revision)[op] IN
  /\ op \in NamesTable(revision) \ {OP_INVALID}
  /\ m.stack_height_required <= h
  /\ h + m.stack_height_change <= StackLimit

\* The difference of cost, counted up to its bound.
Counted(n) ==
  IF n > ExtraCap THEN ExtraCap ELSE IF n < -ExtraCap THEN -ExtraCap ELSE n

\* The next opcode of the program, one the older run goes on with.
ExecuteOpcode(op) ==
  LET m == MetricsTable(older)[op]
      n == MetricsTable(newer)[op]
  IN /\ ~upset
     /\ Executable(older, op, height["older"])
     /\ IF Executable(newer, op, height["newer"])
        THEN /\ height' = [older |-> height["older"] + m.stack_height_change,
                           newer |-> height["newer"] + n.stack_height_change]
             /\ extra' = Counted(extra + n.gas_cost - m.gas_cost)
             /\ UNCHANGED upset
        ELSE /\ upset' = TRUE
             /\ UNCHANGED <<height, extra>>
     /\ UNCHANGED <<older, newer>>

InstructionsNext == \E op \in Opcode : ExecuteOpcode(op)

InstructionsSpec == InstructionsInit /\ [][InstructionsNext]_instructionVars

-----------------------------------------------------------------------------
(* Properties.                                                             *)

\* The two lookups draw the same line between defined and undefined opcodes
\* for a revision, although names are shared by revisions that metrics tell
\* apart: an opcode without metrics has no name, and the other way round.
\* Two named opcodes cost and do nothing: STOP and INVALID.
TablesAgree ==
  \A revision \in {older, newer} :
    {op \in Opcode : MetricsTable(revision)[op] # UNDEFINED}
      = NamesTable(revision) \ {OP_STOP, OP_INVALID}

\* A stack that is as high as the table requires is never popped below its
\* bottom: what an instruction requires covers what it takes.
StackCovered == \A run \in DOMAIN height : height[run] \in 0..StackLimit

\* A program that runs under a revision runs under every later one: it
\* meets no undefined opcode, its stack is the same at every step, and it
\* never gets cheaper (each table of 256 rows repeats the one before).
UpgradeKeepsPrograms ==
  /\ ~upset
  /\ height["older"] = height["newer"]
  /\ extra >= 0
=============================================================================
