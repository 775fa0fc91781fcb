----------------------------- MODULE CommandLine ----------------------------
(***************************************************************************)
(* The start of the program (apps/mhb_main.cpp): every rank parses the     *)
(* same arguments with cxxopts, ApplyCli turns them into a configuration   *)
(* or gives up, and main runs the event loop or ends.  The ranks do this   *)
(* on their own and meet only through MPI_Abort, which ends them all.      *)
(***************************************************************************)
EXTENDS Cxxopts

CONSTANTS
  WorldSize,        \* MPI_Comm_size
  DefaultCapacity,  \* kDefaultPartyCapacity
  DefaultBears,     \* kDefaultBears
  Arguments         \* the command lines: sequences of arguments

Ranks == 0 .. WorldSize - 1

\* std::to_string.
to_string(n) ==
  LET length == CHOOSE k \in 1 .. n + 1 :
                  10^k > n /\ \A j \in 1 .. k - 1 : 10^j <= n
  IN  Numeral([i \in 1 .. length |-> (n \div 10^(length - i)) % 10])

\* The options that ApplyCli adds; h and help are the two names of one.
Details ==
  [o \in {"world-size", "party-capacity", "num-bears", "help"} |->
     CASE o = "world-size" -> OptionAdder({o}, UintValue({}))
       [] o = "party-capacity" ->
            OptionAdder({o}, UintValue({to_string(DefaultCapacity)}))
       [] o = "num-bears" -> OptionAdder({o}, UintValue({to_string(DefaultBears)}))
       [] o = "help" -> OptionAdder({"h", o}, BoolValue)]

ASSUME CommandLineAssumption ==
  /\ WorldSize \in 1 .. UintMax
  /\ DefaultCapacity \in 1 .. UintMax
  /\ DefaultBears \in 0 .. UintMax
  /\ CanBeAdded(Details)

VARIABLES
  argv,     \* the arguments, the same for all ranks
  current,  \* OptionParser::parse, current: the argument to look at next
  parsed,   \* m_parsed: the OptionValue of each option
  stage,    \* "parse", "parsed", "run", "finalized" or "aborted"
  cfg       \* the configuration, {} before ApplyCli has made it

vars == <<argv, current, parsed, stage, cfg>>

Init ==
  /\ argv \in Arguments
  /\ current = [r \in Ranks |-> 1]
  /\ parsed = [r \in Ranks |-> [o \in DOMAIN Details |-> NoOptionValue]]
  /\ stage = [r \in Ranks |-> "parse"]
  /\ cfg = [r \in Ranks |-> {}]
-----------------------------------------------------------------------------
MPI_Abort(r) ==
  /\ stage' = [stage EXCEPT ![r] = "aborted"]
  /\ UNCHANGED <<argv, current, parsed, cfg>>

\* One turn of the loop of OptionParser::parse.
ParseNext(r) ==
  /\ stage[r] = "parse"
  /\ current[r] \in DOMAIN argv
  /\ \E reading \in Accepted(Reading(Details, argv, current[r])) :
       /\ current' = [current EXCEPT ![r] = reading.next]
       /\ parsed' = [parsed EXCEPT
                       ![r] = FoldLeft(ParseOption, @, reading.given)]
  /\ UNCHANGED <<argv, stage, cfg>>

\* The exception is caught in ApplyCli, which aborts.
ParseThrows(r) ==
  /\ stage[r] = "parse"
  /\ current[r] \in DOMAIN argv
  /\ Accepted(Reading(Details, argv, current[r])) = {}
  /\ MPI_Abort(r)

EndParse(r) ==
  /\ stage[r] = "parse"
  /\ current[r] \notin DOMAIN argv
  /\ stage' = [stage EXCEPT ![r] = "parsed"]
  /\ parsed' = [parsed EXCEPT ![r] = WithDefaults(Details, @)]
  /\ UNCHANGED <<argv, current, cfg>>
-----------------------------------------------------------------------------
\* Slips: too many bears wrap the number of hares around; only rank 0, which
\* prints the help, ends after it.
AnyBears(bears) == FALSE
RankZeroHelps(r) == r = 0 /\ Count(parsed[r], "help") > 0

HelpAsked(r) == Count(parsed[r], "help") > 0

\* Without --world-size the world has the size it has.
OtherWorldExpected(store) ==
  Count(store, "world-size") > 0 /\ As(store, "world-size") # {WorldSize}

TooManyBears(bears) == bears > WorldSize

\* num_hares is a difference of unsigned numbers.
ConfigWith(capacity, bears) ==
  [world_size |-> WorldSize, party_capacity |-> capacity, num_bears |-> bears,
   num_hares |-> Uint(WorldSize - bears)]

\* The configuration ApplyCli makes, {} where it aborts.
Config(store) ==
  {c \in {ConfigWith(capacity, bears) :
            capacity \in As(store, "party-capacity"),
            bears \in As(store, "num-bears")} :
     /\ ~OtherWorldExpected(store)
     /\ c.party_capacity # 0
     /\ ~TooManyBears(c.num_bears)
     /\ c.num_hares # 0}

\* ApplyCli returns FALSE: main finalizes MPI and returns 0.
ShowHelp(r) ==
  /\ stage[r] = "parsed"
  /\ HelpAsked(r)
  /\ stage' = [stage EXCEPT ![r] = "finalized"]
  /\ UNCHANGED <<argv, current, parsed, cfg>>

ConfigError(r) ==
  /\ stage[r] = "parsed"
  /\ ~HelpAsked(r)
  /\ Config(parsed[r]) = {}
  /\ MPI_Abort(r)

Run(r) ==
  /\ stage[r] = "parsed"
  /\ ~HelpAsked(r)
  /\ Config(parsed[r]) # {}
  /\ cfg' = [cfg EXCEPT ![r] = Config(parsed[r])]
  /\ stage' = [stage EXCEPT ![r] = "run"]
  /\ UNCHANGED <<argv, current, parsed>>

\* An abort reaches the other ranks, wherever they are, but not at once.
Killed(r) ==
  /\ stage[r] \notin {"aborted", "finalized"}
  /\ \E s \in Ranks : stage[s] = "aborted"
  /\ MPI_Abort(r)

Step(r) ==
  \/ ParseNext(r)
  \/ ParseThrows(r)
  \/ EndParse(r)
  \/ ShowHelp(r)
  \/ ConfigError(r)
  \/ Run(r)
  \/ Killed(r)

Next == \E r \in Ranks : Step(r)

Spec == Init /\ [][Next]_vars

\* Every rank is a process that the system runs, and an abort gets through.
FairSpec == Spec /\ \A r \in Ranks : WF_vars(Step(r))
=============================================================================
