------------------------------ MODULE Numbers -------------------------------
(***************************************************************************)
(* Computing with the numbers of declared classes (src/ssz/uint.py,        *)
(* src/ssz/boolean.py).  A tally is what a computation has come to: its     *)
(* class and number, the number it would be with no class in the way, and   *)
(* the classes that went into it.  A refused step leaves it as it was.      *)
(*                                                                         *)
(* A plain bool on the left of an operator or a comparison answers for      *)
(* itself, and no class here is asked: it stands on the right alone.       *)
(***************************************************************************)
EXTENDS Declarations

CONSTANTS
  PlainNumbers,  \* bound: the plain integers met as operands
  MaxShift,      \* bound: the widest shift and the largest exponent
  InternBelow    \* the numbers a class keeps one instance of each for

ASSUME NumbersAssumption == PlainNumbers \subseteq Int

VARIABLE tally

Held(class, number) == [class |-> class, number |-> number]

PlainInt == 0
PlainBool == -1
Thing == -2
Raised == Held(-3, 0)
Declined == Held(-4, 0)

UintIds == {c \in Ids : Shape(c) = "uint"}
BooleanIds == {c \in Ids : Shape(c) = "boolean"}
MaxValue(c) == 2^Presented(c, "BITS") - 1

Plain == {Held(PlainInt, n) : n \in PlainNumbers}
Flags == {Held(PlainBool, n) : n \in 0..1}
Things == {Held(Thing, 1)}
Values ==
  (UNION {{Held(c, n) : n \in 0..MaxValue(c)} : c \in UintIds})
    \cup {Held(c, n) : c \in BooleanIds, n \in 0..1}

---------------------------------------------------------------------------
(* Instances. *)

(* The instances a class shares, one for each of its smallest numbers. *)
InternLen(c) == IF InternBelow <= MaxValue(c) THEN InternBelow ELSE MaxValue(c) + 1
Interned(c) == [n \in 0..(InternLen(c) - 1) |-> Held(c, n)]

(* Fault: a negative number reads the table from its end. *)
WrapFromTheEnd(c, n) ==
  IF n \in -InternLen(c)..-1 THEN Interned(c)[InternLen(c) + n]
  ELSE IF n \in DOMAIN Interned(c) THEN Interned(c)[n]
  ELSE IF n \in InternLen(c)..MaxValue(c) THEN Held(c, n) ELSE Raised

Wrap(c, n) ==
  IF n \in DOMAIN Interned(c) THEN Interned(c)[n]
  ELSE IF n \in InternLen(c)..MaxValue(c) THEN Held(c, n) ELSE Raised

NewUint(c, x) == IF x.class \in {PlainBool, Thing} THEN Raised ELSE Wrap(c, x.number)

NewBoolean(c, x) ==
  IF x.class = Thing \/ x.number \notin 0..1 THEN Raised ELSE Held(c, x.number)

---------------------------------------------------------------------------
(* What the operators come to, classes aside. *)

Sums(op, x, y) == CASE op = "+" -> x + y [] op = "-" -> x - y [] op = "*" -> x * y

Modulo(x, y) == IF y > 0 THEN x % y ELSE -((-x) % (-y))
Quotient(x, y) == IF y > 0 THEN x \div y ELSE (-x) \div (-y)

(* A negative exponent asks for an inverse, which only a modulus can give. *)
PowerExists(x, y, modulus) ==
  IF y >= 0 THEN modulus # {0}
  ELSE \E m \in modulus \ {0} : \E i \in 0..15 : Modulo(x * i - 1, m) = 0

Power(x, y, modulus) ==
  IF y = 0 /\ modulus = {} THEN 1
  ELSE IF modulus = {} THEN x^y
  ELSE LET m == CHOOSE m \in modulus : TRUE
       IN  IF y = 0 THEN Modulo(1, m)
           ELSE IF y > 0 THEN Modulo(x^y, m)
           ELSE Modulo((CHOOSE i \in 0..15 : Modulo(x * i - 1, m) = 0)^(-y), m)

(* The places of a number's bits that are set, the sign's among them: it    *)
(* reaches past every operand.                                             *)
Sign == 6
Bits(x) == {p \in 0..Sign : (x \div 2^p) % 2 = 1}
FromBits(places) ==
  SumSet({2^p : p \in places \ {Sign}}) - (IF Sign \in places THEN 2^Sign ELSE 0)

Bitwise(op, x, y) ==
  FromBits(CASE op = "&" -> Bits(x) \cap Bits(y)
             [] op = "|" -> Bits(x) \cup Bits(y)
             [] op = "^" -> SymDiff(Bits(x), Bits(y)))

Shifted(op, x, y) == IF op = "<<" THEN x * 2^y ELSE x \div 2^y

SumOps == {"+", "-", "*"}
DivisionOps == {"//", "%"}
BitwiseOps == {"&", "|", "^"}
ShiftOps == {"<<", ">>"}
Ops == SumOps \cup DivisionOps \cup BitwiseOps \cup ShiftOps \cup {"**"}

Exists(op, x, y) ==
  CASE op \in DivisionOps -> y # 0
    [] op \in ShiftOps -> y >= 0
    [] op = "**" -> PowerExists(x, y, {})
    [] OTHER -> TRUE

Exact(op, x, y) ==
  CASE op \in SumOps -> Sums(op, x, y)
    [] op = "//" -> Quotient(x, y)
    [] op = "%" -> Modulo(x, y)
    [] op \in BitwiseOps -> Bitwise(op, x, y)
    [] op \in ShiftOps -> Shifted(op, x, y)
    [] op = "**" -> Power(x, y, {})

---------------------------------------------------------------------------
(* Who answers, and as what. *)

(* Fault: any uint will do, and the left one names the answer. *)
ResolveTypeByWidth(c, other) ==
  IF other.class \in {PlainInt} \cup UintIds THEN c
  ELSE IF other.class = Thing THEN Declined.class ELSE Raised.class

(* Fault: only what derives from the operand asked is related to it. *)
ResolveTypeDownward(c, other) ==
  IF other.class = PlainInt THEN c
  ELSE IF other.class = Thing THEN Declined.class
  ELSE IF other.class \in UintIds /\ IsSubclass(other.class, c) THEN other.class
  ELSE Raised.class

(* The more derived of two classes, if either derives from the other. *)
ResolveType(c, other) ==
  IF other.class = PlainInt THEN c
  ELSE IF other.class = Thing THEN Declined.class
  ELSE IF other.class \in UintIds /\ IsSubclass(other.class, c) THEN other.class
  ELSE IF other.class \in UintIds /\ IsSubclass(c, other.class) THEN c
  ELSE Raised.class

(* A bit is nothing to count with, and combines with bits of its own class. *)
BooleanAnswer(op, self, other) ==
  IF op \in BitwiseOps /\ other.class \in BooleanIds /\ IsSubclass(other.class, self.class)
    THEN Held(self.class, Bitwise(op, self.number, other.number))
  ELSE IF other.class = Thing /\ op \notin BitwiseOps THEN Declined ELSE Raised

UintAnswer(op, self, other, left, right) ==
  LET c == ResolveType(self.class, other)
  IN  IF c = Declined.class THEN Declined
      ELSE IF c = Raised.class \/ ~ Exists(op, left.number, right.number) THEN Raised
      ELSE Wrap(c, Exact(op, left.number, right.number))

Answer(op, self, other, left, right) ==
  IF self.class \in BooleanIds THEN BooleanAnswer(op, self, other)
  ELSE UintAnswer(op, self, other, left, right)

(* The left operand is asked, unless it is no class of this library. *)
Evaluate(op, left, right) ==
  LET answer == IF left.class \in Ids THEN Answer(op, left, right, left, right)
                ELSE Answer(op, right, left, left, right)
  IN  IF answer = Declined THEN Raised ELSE answer

(* A comparison is answered or refused, and no unit is declined. *)
RequireRelation(c, other) == ResolveType(c, other) \notin {Declined.class, Raised.class}

Comparable(self, other) ==
  IF self.class \in BooleanIds THEN other.class \in BooleanIds
  ELSE RequireRelation(self.class, other)

Ordered(rel, x, y) ==
  CASE rel = "==" -> x = y [] rel = "<" -> x < y [] rel = "<=" -> x <= y
    [] rel = "!=" -> x # y [] rel = ">" -> x > y [] rel = ">=" -> x >= y

(* The answers to a comparison: one, or none if it is refused.  The more    *)
(* derived operand is asked first.                                         *)
Compare(rel, left, right) ==
  LET rightFirst == \/ left.class \notin Ids
                    \/ right.class \in Ids /\ IsSubclass(right.class, left.class)
      asked == IF rightFirst THEN Comparable(right, left) ELSE Comparable(left, right)
  IN  IF asked THEN {Ordered(rel, left.number, right.number)} ELSE {}

---------------------------------------------------------------------------
(* Actions. *)

Declared == Len(classes) = Len(Programs[session])

Counted(x) == IF x.class \in Ids THEN {x.class} ELSE {}

Become(answer, exact, units) ==
  /\ answer # Raised
  /\ tally' = [class |-> answer.class, number |-> answer.number,
               exact |-> exact, units |-> units]
  /\ UNCHANGED declarationVars

Current == Held(tally.class, tally.number)

Create ==
  /\ Declared
  /\ tally = None
  /\ \E x \in Plain \cup Flags \cup Things :
       \/ \E c \in UintIds : Become(NewUint(c, x), x.number, {c})
       \/ \E c \in BooleanIds : Become(NewBoolean(c, x), x.number, {c})

(* A class is called with a value of another: units are left on purpose. *)
Convert ==
  /\ tally # None
  /\ \/ \E c \in UintIds : Become(NewUint(c, Current), tally.exact, {c})
     \/ \E c \in BooleanIds : Become(NewBoolean(c, Current), tally.exact, {c})

Small(op, y) == op \in ShiftOps \cup {"**"} => y <= MaxShift

OperateOnTheLeft(op) ==
  /\ tally # None
  /\ \E x \in Values \cup Plain \cup Flags \cup Things :
       /\ Small(op, x.number)
       /\ Become(Evaluate(op, Current, x), Exact(op, tally.exact, x.number),
                 tally.units \cup Counted(x))

OperateOnTheRight(op) ==
  /\ tally # None
  /\ Small(op, tally.number)
  /\ \E x \in Values \cup Plain \cup Things :
       Become(Evaluate(op, x, Current), Exact(op, x.number, tally.exact),
              tally.units \cup Counted(x))

(* Both halves of a division are wrapped, and either may be kept. *)
Divmod ==
  /\ tally # None
  /\ \E x \in Values \cup Plain \cup Flags \cup Things :
       LET halves == [op \in DivisionOps |-> Evaluate(op, Current, x)]
       IN  /\ \A op \in DivisionOps : halves[op] # Raised
           /\ \E op \in DivisionOps :
                Become(halves[op], Exact(op, tally.exact, x.number), tally.units \cup Counted(x))

(* The modulus resolves against what the exponent settled on. *)
PowerModulo ==
  /\ tally # None
  /\ tally.class \in UintIds
  /\ \E x, m \in Values \cup Plain \cup Flags \cup Things :
       LET c == ResolveType(tally.class, x)
       IN  /\ x.number <= MaxShift
           /\ c \in Ids
           /\ ResolveType(c, m) \in Ids
           /\ PowerExists(tally.number, x.number, {m.number})
           /\ Become(Wrap(ResolveType(c, m), Power(tally.number, x.number, {m.number})),
                     Power(tally.exact, x.number, {m.number}),
                     tally.units \cup Counted(x) \cup Counted(m))

Calculating ==
  \/ Create
  \/ Convert
  \/ \E op \in Ops : OperateOnTheLeft(op) \/ OperateOnTheRight(op)
  \/ Divmod
  \/ PowerModulo

NumbersInit == DeclarationsInit /\ tally = None
NumbersNext == (Declaring /\ UNCHANGED tally) \/ Calculating
NumbersSpec == NumbersInit /\ [][NumbersNext]_<<classes, session, tally>>

---------------------------------------------------------------------------
(* Properties. *)

(* No table, bound or class alters a number that gets through (_wrap). *)
TalliesAreExact == tally # None => tally.number = tally.exact

(* Nothing that went into a computation was a sibling of what it came to:   *)
(* the answer's class derives from every unit, and a bit from bits alone    *)
(* (_resolve_type; the modulus of a power among them).                     *)
UnitsNeverMix ==
  tally # None =>
    \A u \in tally.units :
      IF tally.class \in UintIds THEN u \in UintIds /\ IsSubclass(tally.class, u)
      ELSE u \in BooleanIds

(* A bit class and one derived from it: a bit of the first takes one of the *)
(* second, and is not taken by it.                                         *)
BitAndItsKind(c, d) ==
  /\ {c, d} \subseteq BooleanIds /\ c # d
  /\ IsSubclass(c, d) \/ IsSubclass(d, c)

(* Of two numbers of declared classes, or one and a plain integer, which    *)
(* stands on the left decides neither an answer nor a refusal of a         *)
(* comparison or of an operator that is indifferent to order, with one     *)
(* exception: bits of a class and of its subclass, combined the one way,   *)
(* are refused the other (boolean.py:293), and never answered both ways.   *)
SidesAgree ==
  Declared /\ tally = None =>
    \A x \in Values, y \in Values \cup Plain \cup Things :
      /\ \A op \in BitwiseOps \cup {"+", "*"} :
           \/ Evaluate(op, x, y) = Evaluate(op, y, x)
           \/ /\ BitAndItsKind(x.class, y.class)
              /\ Raised \in {Evaluate(op, x, y), Evaluate(op, y, x)}
      /\ Compare("==", x, y) = Compare("==", y, x)
      /\ Compare("<", x, y) = Compare(">", y, x)
      /\ Compare("<=", x, y) = Compare(">=", y, x)
=============================================================================
