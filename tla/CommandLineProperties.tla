----------------------- MODULE CommandLineProperties ------------------------
(***************************************************************************)
(* What the start of the program promises.  The reference reads a command  *)
(* line as a whole: each argument has one role, and a number is the sum of *)
(* its digits, without a loop and without a bound on it.                   *)
(***************************************************************************)
EXTENDS CommandLine, FiniteSetsExt

\* The options that take a number.
Numbers == {"world-size", "party-capacity", "num-bears"}

\* Does argument i need the one behind it for its value?
TakesNext(i) ==
  /\ argv[i].form = "long"
  /\ argv[i].value = {}
  /\ argv[i].name \in Numbers

\* The one way to tell options, their values and what follows a `--` apart.
Roles ==
  CHOOSE role \in [DOMAIN argv -> {"own", "value", "rest"}] :
    \A i \in DOMAIN argv :
      /\ role[i] = "value" <=> i > 1 /\ role[i - 1] = "own" /\ TakesNext(i - 1)
      /\ role[i] = "rest" <=>
           \E j \in 1 .. i - 1 : role[j] = "own" /\ argv[j].form = "terminator"

\* The number a text stands for, {} when it stands for none that fits.
NumberOf(text) ==
  LET n      == Len(text.digits)
      number == MapThenSumSet(LAMBDA k : text.digits[k] * Base(text)^(n - k),
                              DOMAIN text.digits)
  IN  IF /\ ~text.negative
         /\ n > 0
         /\ \A k \in DOMAIN text.digits : text.digits[k] < Base(text)
         /\ number <= UintMax
      THEN {number}
      ELSE {}

\* The arguments that give an option a number, and the texts they give it.
Mentions(option) ==
  {i \in DOMAIN argv :
     Roles[i] = "own" /\ argv[i].form = "long" /\ argv[i].name = option}
TextOf(i) == IF argv[i].value = {} THEN {argv[i + 1].text} ELSE argv[i].value

MentionsHelp(i) ==
  /\ Roles[i] = "own"
  /\ \/ argv[i].form = "long" /\ argv[i].name = "help"
     \/ argv[i].form = "group"

WellFormed ==
  /\ \A i \in DOMAIN argv : Roles[i] = "own" =>
       /\ argv[i].form # "malformed"
       /\ argv[i].form = "long" => argv[i].name \in Numbers \union {"help"}
       /\ argv[i].form = "group" => Range(argv[i].names) = {"h"}
       /\ TakesNext(i) => i < Len(argv)
  /\ \A o \in Numbers : \A i \in Mentions(o) : \A t \in TextOf(i) :
       NumberOf(t) # {}
  /\ \A i \in Mentions("help") : \A t \in argv[i].value : t.truth # {}

LastOr(option, default) ==
  IF Mentions(option) = {} THEN default
  ELSE UNION {NumberOf(t) : t \in TextOf(Max(Mentions(option)))}
-----------------------------------------------------------------------------
\* A command line is accepted exactly when it is well formed and every number
\* on it fits, and then each option has the last value given to it, or else its
\* default: the loop never takes a value for an option, loses one or wraps a
\* number.
ParsesAsWritten ==
  \A r \in Ranks :
    stage[r] \in {"parsed", "run", "finalized"} =>
      /\ WellFormed
      /\ HelpAsked(r) <=> \E i \in DOMAIN argv : MentionsHelp(i)
      /\ parsed[r]["world-size"].value = LastOr("world-size", {})
      /\ parsed[r]["party-capacity"].value =
           LastOr("party-capacity", {DefaultCapacity})
      /\ parsed[r]["num-bears"].value = LastOr("num-bears", {DefaultBears})

\* The program gives up on a command line only when something is wrong with it.
RefusesOnlyErrors ==
  \A r \in Ranks : stage[r] = "aborted" =>
    \/ ~WellFormed
    \/ LastOr("world-size", {WorldSize}) # {WorldSize}
    \/ LastOr("party-capacity", {DefaultCapacity}) = {0}
    \/ \E b \in LastOr("num-bears", {DefaultBears}) : b >= WorldSize

\* An option on the command line of a run takes effect: one that stands where
\* the value of another belongs is not read as that value.
NoOptionIsSwallowed ==
  \A r \in Ranks : stage[r] = "run" =>
    \A i \in DOMAIN argv :
      argv[i].form \in {"long", "group"} => Roles[i] # "value"

\* A run has what the algorithm needs: hares, a capacity, and as many processes
\* as hares and bears, whatever numbers were given.
ConfigIsSound ==
  \A r \in Ranks : \A c \in cfg[r] :
    /\ c.num_hares >= 1
    /\ c.party_capacity >= 1
    /\ c.num_hares + c.num_bears = WorldSize

\* A rank that runs waits for replies of all the others, so all must run, and
\* with the same configuration; each decides on its own.
RunsTogether ==
  \A r \in Ranks :
    (stage[r] = "run") ~>
      \A s \in Ranks : stage[s] = "run" /\ cfg[s] = cfg[r]
=============================================================================
