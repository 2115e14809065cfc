------------------------------ MODULE EnumType ------------------------------
(***************************************************************************)
(* EnumType of pkg/yang/types_builtin.go: the names and values of an       *)
(* enumeration, or the names and positions of a bits type.  Set and        *)
(* SetNext return the changed type, or the same one with an error.         *)
(***************************************************************************)
EXTENDS Integers, Sequences

CONSTANTS
    EnumName,   \* the names that statements may hold
    MinEnum,    \* the smallest and ...
    MaxEnum,    \* ... the largest value of an enumeration
    MaxBit,     \* the largest position of a bit: MaxBitfieldSize - 1
    NoValue     \* the value of an enum statement that has none

ASSUME EnumAssumption ==
    /\ MinEnum \in Int /\ MaxEnum \in Int /\ MaxBit \in Int
    /\ MinEnum <= 0 /\ 0 <= MaxEnum /\ MaxEnum <= MaxBit
    /\ NoValue \notin Int

\* A statement "enum name { value v; }" or "bit name { position v; }".
EnumStatement == [name : EnumName, value : Int \cup {NoValue}]

NewEnumType ==
    [last |-> -1, min |-> MinEnum, max |-> MaxEnum, unique |-> TRUE,
     toString |-> <<>>, toInt |-> <<>>]

NewBitfield ==
    [last |-> -1, min |-> 0, max |-> MaxBit, unique |-> FALSE,
     toString |-> <<>>, toInt |-> <<>>]

\* Set returns an error.
Refused(e, name, value) ==
    \/ name \in DOMAIN e.toInt
    \/ e.unique /\ value \in DOMAIN e.toString
    \/ value < e.min \/ value > e.max

\* The maximum value assigned thus far, at least -1.  Mutant: the latest value.
Latest(e, value) == value
Highest(e, value) == IF value >= e.last THEN value ELSE e.last

Set(e, name, value) ==
    IF Refused(e, name, value) THEN e
    ELSE [e EXCEPT
            !.toString = [v \in DOMAIN @ \cup {value} |-> IF v = value THEN name ELSE @[v]],
            !.toInt = [n \in DOMAIN @ \cup {name} |-> IF n = name THEN value ELSE @[n]],
            !.last = Highest(e, value)]

\* SetNext, which compares with MaxEnum also when e is a bitfield.
NoNext(e) == e.last = MaxEnum

\* The value that a statement gives its name: its own, or what SetNext chooses.
ValueOf(e, s) == IF s.value = NoValue THEN e.last + 1 ELSE s.value

StatementFails(e, s) ==
    \/ s.value = NoValue /\ NoNext(e)
    \/ Refused(e, s.name, ValueOf(e, s))

\* "set" of Type.resolve.
SetStatement(e, s) ==
    IF StatementFails(e, s) THEN e ELSE Set(e, s.name, ValueOf(e, s))

\* What a type is after each of the statements.
After(new, statements) ==
    LET after[i \in 0 .. Len(statements)] ==
            IF i = 0 THEN new ELSE SetStatement(after[i - 1], statements[i])
    IN  after

-----------------------------------------------------------------------------
(* What an EnumType promises *)

\* Every name has a value within the bounds, every value leads to a name that has it,
\* and no value is above last.  The names of an enumeration have different values.
WellFormed(e) ==
    /\ \A n \in DOMAIN e.toInt :
          /\ e.toInt[n] \in e.min .. e.max
          /\ e.toInt[n] <= e.last
          /\ e.toInt[n] \in DOMAIN e.toString
    /\ \A v \in DOMAIN e.toString :
          e.toString[v] \in DOMAIN e.toInt /\ e.toInt[e.toString[v]] = v
    /\ e.unique => \A n \in DOMAIN e.toInt : e.toString[e.toInt[n]] = n
=============================================================================
