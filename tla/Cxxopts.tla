------------------------------- MODULE Cxxopts ------------------------------
(***************************************************************************)
(* What the program uses of cxxopts: options with a short and a long name  *)
(* and a value that is an unsigned integer or a boolean, and how the       *)
(* parser takes the arguments one after another.  Help texts, containers   *)
(* and positional options are left out: the program declares none of the   *)
(* latter, so an argument that belongs to no option is ignored.            *)
(*                                                                         *)
(* `details` is OptionMap as a function on options; `argv` holds tokens,   *)
(* what option_pattern makes of an argument.  A result is a set, {} where  *)
(* the code throws.                                                        *)
(***************************************************************************)
EXTENDS IntegerText

\* An argument; `text` is what it says as the value of the option before it.
Long(name, value) ==
  [form |-> "long", name |-> name, value |-> value, text |-> NoNumeral]
Group(names, text) == [form |-> "group", names |-> names, text |-> text]
Plain(text) == [form |-> "plain", text |-> text]
Terminator == [form |-> "terminator", text |-> NoNumeral]
Malformed == [form |-> "malformed", text |-> NoNumeral]

\* cxxopts::value<uint32_t>() with a default value or without; value<bool>().
UintValue(default) == [boolean |-> FALSE, default |-> default, implicit |-> {}]
BoolValue ==
  [boolean |-> TRUE, default |-> {Text(FALSE, FALSE, <<NotADigit>>, {FALSE})},
   implicit |-> {Text(FALSE, FALSE, <<NotADigit>>, {TRUE})}]

OneLetter == {"h"}

\* OptionAdder's operator(): the names of one letter are the short ones.
OptionAdder(names, value) ==
  [short |-> names \cap OneLetter, long |-> names \ OneLetter, value |-> value]

Names(detail) == detail.short \union detail.long

\* OptionAdder and add_one_option throw unless there is at most one short name,
\* and no name is taken.
CanBeAdded(details) ==
  /\ \A o \in DOMAIN details : \A m, n \in details[o].short : m = n
  /\ \A o, p \in DOMAIN details :
       o # p => Names(details[o]) \cap Names(details[p]) = {}

Named(details, name) == {o \in DOMAIN details : name \in Names(details[o])}
-----------------------------------------------------------------------------
\* A slip: the first value of an option stays.
FirstValueStays(store, given) ==
  [store EXCEPT ![given.option].count = @ + 1,
                ![given.option].value = IF @ = {} THEN given.value ELSE @]

\* abstract_value::parse, {} where parse_value throws.
ParseValue(detail, text) ==
  IF detail.value.boolean THEN text.truth ELSE IntegerParser(text)

Given(details, option, text) ==
  [option |-> option, value |-> ParseValue(details[option], text)]

\* OptionValue: how often the option was given and its last value, {} for none.
NoOptionValue == [count |-> 0, value |-> {}]

\* OptionValue::parse, by way of parse_option.
ParseOption(store, given) ==
  [store EXCEPT ![given.option] = [count |-> @.count + 1,
                                   value |-> given.value]]

\* OptionValue::parse_default: a default does not count as given.
ParseDefault(detail) ==
  [count |-> 0,
   value |-> UNION {ParseValue(detail, t) : t \in detail.value.default}]

\* checked_parse_arg: the implicit value if there is one, else the next
\* argument whatever it looks like, and an exception when there is none.
CheckedParseArg(details, option, argv, i) ==
  IF details[option].value.implicit # {}
  THEN {[given |-> <<Given(details, option, t)>>, next |-> i + 1] :
          t \in details[option].value.implicit}
  ELSE {[given |-> <<Given(details, option, argv[j].text)>>, next |-> j + 1] :
          j \in {i + 1} \cap DOMAIN argv}

\* -abc: the options a, b and c, which have implicit values; an unknown letter
\* throws.  (The rest of a group is the value of an option that has none; the
\* program has no such option with a short name.)
ParseGroup(details, names, i) ==
  IF \A n \in DOMAIN names : Named(details, names[n]) # {}
  THEN LET option(n) == CHOOSE o \in Named(details, names[n]) : TRUE
           text(n)   == CHOOSE t \in details[option(n)].value.implicit : TRUE
       IN  {[given |-> [n \in DOMAIN names |-> Given(details, option(n), text(n))],
             next |-> i + 1]}
  ELSE {}

\* --name=value or --name.
ParseLong(details, argv, i) ==
  UNION {IF argv[i].value # {}
         THEN {[given |-> <<Given(details, o, t)>>, next |-> i + 1] :
                 t \in argv[i].value}
         ELSE CheckedParseArg(details, o, argv, i) :
           o \in Named(details, argv[i].name)}

\* What argument i gives and where parsing goes on.  A `--` ends the options:
\* everything after it is left over.
Reading(details, argv, i) ==
  CASE argv[i].form = "plain" -> {[given |-> <<>>, next |-> i + 1]}
    [] argv[i].form = "terminator" -> {[given |-> <<>>, next |-> Len(argv) + 1]}
    [] argv[i].form = "malformed" -> {}
    [] argv[i].form = "group" -> ParseGroup(details, argv[i].names, i)
    [] argv[i].form = "long" -> ParseLong(details, argv, i)

\* The readings that no value makes throw.
Accepted(readings) ==
  {r \in readings : \A n \in DOMAIN r.given : r.given[n].value # {}}

\* The end of OptionParser::parse: an option not given gets its default.
WithDefaults(details, store) ==
  [o \in DOMAIN details |->
     IF details[o].value.default # {} /\ store[o].count = 0
     THEN ParseDefault(details[o])
     ELSE store[o]]

\* ParseResult::count, and operator[] with OptionValue::as.
Count(store, option) == store[option].count
As(store, option) == store[option].value
=============================================================================
