-------------------------- MODULE InstanceKeyProofs --------------------------
(***************************************************************************)
(* Proofs about ParseInstanceKey (InstanceKey), for every alphabet and    *)
(* every bound on the length of a string.  The property is inductive as  *)
(* it stands: a parse's result is a function of its input; the work is   *)
(* in following a well-formed key through strings.Split and fmt's scanInt *)
(* (Lead, Drop, SubSeq) to the value of its port.                         *)
(***************************************************************************)
EXTENDS InstanceKey, SequenceTheorems, FiniteSetTheorems, TLAPS

USE KeyAssumption

(* The longest prefix of s made of characters in C is empty when the     *)
(* first character is not in C (scanInt's skip of spaces and its digit   *)
(* loop stop at once).                                                     *)
LEMMA LeadNone ==
    ASSUME NEW S, NEW s \in Seq(S), NEW C, Len(s) > 0, s[1] \notin C
    PROVE  Lead(s, C) = 0
<1>. DEFINE P(n) == /\ \A i \in 1 .. n : s[i] \in C
                    /\ n = Len(s) \/ s[n + 1] \notin C
<1>1. 0 \in 0 .. Len(s) /\ P(0)
  OBVIOUS
<1>2. \A n \in 0 .. Len(s) : P(n) => n = 0
  OBVIOUS
<1>3. (CHOOSE n \in 0 .. Len(s) : P(n)) = 0
  BY <1>1, <1>2
<1>. QED BY <1>3 DEF Lead

(* The longest prefix of s made of characters in C is all of s when every *)
(* character is in C (the digit loop runs to the end of a numeric port).  *)
LEMMA LeadAll ==
    ASSUME NEW S, NEW s \in Seq(S), NEW C, \A i \in 1 .. Len(s) : s[i] \in C
    PROVE  Lead(s, C) = Len(s)
<1>. DEFINE P(n) == /\ \A i \in 1 .. n : s[i] \in C
                    /\ n = Len(s) \/ s[n + 1] \notin C
<1>1. Len(s) \in 0 .. Len(s) /\ P(Len(s))
  OBVIOUS
<1>2. \A n \in 0 .. Len(s) : P(n) => n = Len(s)
  OBVIOUS
<1>3. (CHOOSE n \in 0 .. Len(s) : P(n)) = Len(s)
  BY <1>1, <1>2
<1>. QED BY <1>3 DEF Lead

(* Dropping nothing leaves a string as it is. *)
LEMMA DropNone ==
    ASSUME NEW S, NEW s \in Seq(S)
    PROVE  Drop(s, 0) = s
BY SubSeqFull DEF Drop

(* fmt.Sscanf("%d") reads a non-empty run of decimal digits as its        *)
(* decimal value.                                                          *)
LEMMA SscanfDigits ==
    ASSUME NEW S, NEW p \in Seq(S), Len(p) > 0,
           \A i \in 1 .. Len(p) : p[i] \in DigitChars
    PROVE  SscanfInt(p) = [ok |-> TRUE, val |-> DecimalValue(p)]
<1>1. p[1] \in DigitChars
  OBVIOUS
<1>2. Lead(p, {" "}) = 0
  <2>1. p[1] \notin {" "} BY <1>1 DEF DigitChars
  <2>. QED BY <2>1, LeadNone
<1>3. Drop(p, 0) = p
  BY DropNone
<1>4. p # <<>> /\ ~(p[1] \in {"+", "-"})
  BY <1>1 DEF DigitChars
<1>5. Lead(p, DigitChars) = Len(p)
  BY LeadAll
<1>6. SubSeq(p, 1, Len(p)) = p
  BY SubSeqFull
<1>. QED BY <1>2, <1>3, <1>4, <1>5, <1>6 DEF SscanfInt

(* A well-formed key has exactly one colon, before a non-empty run of     *)
(* digits that is the rest of the string.                                  *)
LEMMA WellFormedParts ==
    ASSUME NEW s \in Seq(Chars), WellFormed(s)
    PROVE  LET c == CHOOSE c \in Colons(s) : TRUE
           IN  /\ Cardinality(Colons(s)) = 1
               /\ c \in 1 .. Len(s) /\ c < Len(s)
               /\ Drop(s, c) \in Seq(Chars)
               /\ Len(Drop(s, c)) > 0
               /\ \A i \in 1 .. Len(Drop(s, c)) : Drop(s, c)[i] \in DigitChars
<1>. DEFINE c == CHOOSE c \in Colons(s) : TRUE
<1>1. Cardinality(Colons(s)) = 1 /\ c < Len(s)
      /\ \A i \in c + 1 .. Len(s) : s[i] \in DigitChars
  BY DEF WellFormed
<1>2. Colons(s) # {}
  BY <1>1, FS_EmptySet
<1>3. c \in Colons(s)
  BY <1>2
<1>4. c \in 1 .. Len(s)
  BY <1>3 DEF Colons
<1>5. /\ SubSeq(s, c + 1, Len(s)) \in Seq(Chars)
      /\ Len(SubSeq(s, c + 1, Len(s))) = IF c + 1 <= Len(s) THEN Len(s) - (c + 1) + 1 ELSE 0
      /\ \A i \in 1 .. Len(s) - (c + 1) + 1 :
            SubSeq(s, c + 1, Len(s))[i] = s[(c + 1) + i - 1]
  <2>1. c + 1 \in Int /\ Len(s) \in Int
    BY <1>4
  <2>2. \A i \in c + 1 .. Len(s) : s[i] \in Chars
    BY <1>4
  <2>3. SubSeq(s, c + 1, Len(s)) \in Seq(Chars)
    BY <2>1, <2>2, SubSeqProperties
  <2>4. Len(SubSeq(s, c + 1, Len(s))) = IF c + 1 <= Len(s) THEN Len(s) - (c + 1) + 1 ELSE 0
    BY <2>1, <2>2, SubSeqProperties
  <2>5. \A i \in 1 .. Len(s) - (c + 1) + 1 : SubSeq(s, c + 1, Len(s))[i] = s[(c + 1) + i - 1]
    BY <2>1, <2>2, SubSeqProperties
  <2>. QED BY <2>3, <2>4, <2>5
<1>6. Len(Drop(s, c)) = Len(s) - c /\ Len(s) - c > 0
  BY <1>1, <1>4, <1>5 DEF Drop
<1>7. \A i \in 1 .. Len(Drop(s, c)) : Drop(s, c)[i] \in DigitChars
  <2>1. SUFFICES ASSUME NEW i \in 1 .. Len(s) - c PROVE Drop(s, c)[i] \in DigitChars
    BY <1>6
  <2>2. Drop(s, c)[i] = s[c + i]
    BY <1>4, <1>5 DEF Drop
  <2>3. c + i \in c + 1 .. Len(s)
    BY <1>4
  <2>. QED BY <1>1, <2>2, <2>3
<1>. QED BY <1>1, <1>4, <1>5, <1>6, <1>7 DEF Drop

(* ParseInstanceKey accepts every well-formed key, with the text before   *)
(* the colon as host and the decimal value of the digits after it as     *)
(* port.                                                                   *)
LEMMA ParseWellFormed ==
    ASSUME NEW s \in Seq(Chars), WellFormed(s)
    PROVE  ParseInstanceKey(s) =
             [ok |-> TRUE, key |-> [Hostname |-> HostOf(s),
                                    Port |-> DecimalValue(PortOf(s))]]
<1>. DEFINE c == CHOOSE c \in Colons(s) : TRUE
            p == Drop(s, c)
<1>1. /\ Cardinality(Colons(s)) = 1
      /\ p \in Seq(Chars) /\ Len(p) > 0
      /\ \A i \in 1 .. Len(p) : p[i] \in DigitChars
  BY WellFormedParts
<1>2. Split(s) = <<SubSeq(s, 1, c - 1), p>>
  BY <1>1 DEF Split
<1>3. SscanfInt(p) = [ok |-> TRUE, val |-> DecimalValue(p)]
  BY <1>1, SscanfDigits
<1>4. Len(Split(s)) = 2 /\ Split(s)[1] = HostOf(s) /\ Split(s)[2] = PortOf(s)
  <2>1. Len(Split(s)) = 2
    BY <1>2
  <2>2. Split(s)[1] = SubSeq(s, 1, c - 1) /\ Split(s)[2] = p
    <3>1. \A x, y : <<x, y>>[1] = x /\ <<x, y>>[2] = y
      OBVIOUS
    <3>2. /\ <<SubSeq(s, 1, c - 1), p>>[1] = SubSeq(s, 1, c - 1)
          /\ <<SubSeq(s, 1, c - 1), p>>[2] = p
      BY <3>1, Zenon
    <3>. QED BY <1>2, <3>2, Zenon
  <2>3. HostOf(s) = SubSeq(s, 1, c - 1) /\ PortOf(s) = p
    BY DEF HostOf, PortOf
  <2>. QED BY <2>1, <2>2, <2>3
<1>5. SscanfInt(Split(s)[2]).ok /\ SscanfInt(Split(s)[2]).val = DecimalValue(PortOf(s))
  BY <1>3, <1>4 DEF PortOf
<1>. QED BY <1>4, <1>5 DEF ParseInstanceKey

(* Every string the model enumerates is a sequence of characters. *)
LEMMA InputsAreStrings == Inputs \subseteq Seq(Chars)
BY DEF Inputs, Strings

(* ParseInstanceKey accepts every well-formed key (one colon, a port of   *)
(* decimal digits) and returns its host and the decimal value of its port, *)
(* for every alphabet and string length (spec section 8).                  *)
THEOREM ParseWellFormedTheorem == Spec => []ParseAcceptsWellFormed
<1>1. Init => ParseAcceptsWellFormed
  BY DEF Init, ParseAcceptsWellFormed, Parsing, NoCall
<1>2. ParseAcceptsWellFormed /\ [Next]_vars => ParseAcceptsWellFormed'
  <2>. SUFFICES ASSUME ParseAcceptsWellFormed, [Next]_vars
                PROVE  ParseAcceptsWellFormed'
    OBVIOUS
  <2>1. ASSUME NEW s \in Inputs, Parse(s) PROVE ParseAcceptsWellFormed'
    <3>1. s \in Seq(Chars)
      BY InputsAreStrings
    <3>2. input' = [op |-> "parse", s |-> s] /\ result' = ParseInstanceKey(s)
      BY <2>1 DEF Parse
    <3>3. WellFormed(s) => ParseInstanceKey(s) =
             [ok |-> TRUE, key |-> [Hostname |-> HostOf(s),
                                    Port |-> DecimalValue(PortOf(s))]]
      BY <3>1, ParseWellFormed
    <3>. QED BY <3>2, <3>3 DEF ParseAcceptsWellFormed, Parsing
  <2>2. ASSUME NEW list \in Lists, PoolKeys(list) PROVE ParseAcceptsWellFormed'
    BY <2>2 DEF PoolKeys, ParseAcceptsWellFormed, Parsing
  <2>3. CASE Return
    BY <2>3 DEF Return, ParseAcceptsWellFormed, Parsing
  <2>4. CASE UNCHANGED vars
    BY <2>4 DEF vars, ParseAcceptsWellFormed, Parsing
  <2>. QED BY <2>1, <2>2, <2>3, <2>4 DEF Next
<1>. QED BY <1>1, <1>2, PTL DEF Spec
=============================================================================
