----------------------------- MODULE InstanceKey -----------------------------
(***************************************************************************)
(* InstanceKey of the integer-coded client (src/client/client.go): String  *)
(* formats "%s:%d"; ParseInstanceKey splits at ":" and reads the port with *)
(* fmt.Sscanf("%d"); the pool and snapshot façades parse each string of a  *)
(* decoded string slice and skip the ones that fail.                       *)
(*                                                                         *)
(* A string is a sequence of one-character strings.  fmt.Sscanf("%d")      *)
(* is modelled by what fmt's scanInt does: skip leading spaces, fail at   *)
(* end of input, accept one sign, require at least one decimal digit and  *)
(* take the longest run of digits; the input after the run is never       *)
(* looked at.                                                              *)
(***************************************************************************)
EXTENDS Integers, Sequences, FiniteSets

CONSTANTS
    Chars,       \* the characters input strings are made of
    MaxLen,      \* bound on the length of an input string
    PoolStrings, \* strings the server may list in a pool or snapshot reply
    MaxKeys      \* bound on the length of such a list

ASSUME KeyAssumption ==
    /\ {":", "0", "1"} \subseteq Chars
    /\ MaxLen \in Nat /\ MaxKeys \in Nat

DigitChars == {"0", "1", "2", "3", "4", "5", "6", "7", "8", "9"}
DigitVal   == [c \in DigitChars |->
                 CASE c = "0" -> 0 [] c = "1" -> 1 [] c = "2" -> 2 [] c = "3" -> 3
                   [] c = "4" -> 4 [] c = "5" -> 5 [] c = "6" -> 6 [] c = "7" -> 7
                   [] c = "8" -> 8 [] c = "9" -> 9]
ValDigit   == [n \in 0 .. 9 |-> CHOOSE c \in DigitChars : DigitVal[c] = n]

Strings(n) == UNION {[1 .. m -> Chars] : m \in 0 .. n}
Inputs     == Strings(MaxLen)

(* The length of the longest prefix of s made of characters in C. *)
Lead(s, C) ==
    CHOOSE n \in 0 .. Len(s) :
        /\ \A i \in 1 .. n : s[i] \in C
        /\ n = Len(s) \/ s[n + 1] \notin C

Drop(s, n) == SubSeq(s, n + 1, Len(s))

(* The value of a non-empty run of decimal digits. *)
DecimalValue(ds) ==
    LET v[i \in 0 .. Len(ds)] == IF i = 0 THEN 0 ELSE 10 * v[i - 1] + DigitVal[ds[i]]
    IN  v[Len(ds)]

(* The decimal digits of a natural number, as %d prints them. *)
DecimalDigits(n) ==
    LET d[m \in 0 .. n] == IF m < 10 THEN <<ValDigit[m]>>
                           ELSE d[m \div 10] \o <<ValDigit[m % 10]>>
    IN  d[n]

(* Mutant: a digit loop that stops one digit early. *)
SscanfIntShort(p) ==
    LET q    == Drop(p, Lead(p, {" "}))
        sign == IF q # <<>> /\ q[1] \in {"+", "-"} THEN 1 ELSE 0
        n    == Lead(Drop(q, sign), DigitChars)
        ds   == SubSeq(Drop(q, sign), 1, IF n > 1 THEN n - 1 ELSE n)
    IN  IF q = <<>> \/ n = 0 THEN [ok |-> FALSE]
        ELSE [ok |-> TRUE,
              val |-> IF sign = 1 /\ q[1] = "-" THEN -DecimalValue(ds) ELSE DecimalValue(ds)]

(* fmt.Sscanf(p, "%d", &port): the result, and the port when it succeeds. *)
SscanfInt(p) ==
    LET q    == Drop(p, Lead(p, {" "}))
        sign == IF q # <<>> /\ q[1] \in {"+", "-"} THEN 1 ELSE 0
        ds   == SubSeq(Drop(q, sign), 1, Lead(Drop(q, sign), DigitChars))
    IN  IF q = <<>> \/ ds = <<>> THEN [ok |-> FALSE]
        ELSE [ok |-> TRUE,
              val |-> IF sign = 1 /\ q[1] = "-" THEN -DecimalValue(ds) ELSE DecimalValue(ds)]

Colons(s) == {i \in 1 .. Len(s) : s[i] = ":"}

(* strings.Split(hostPort, ":"), where only the two-part case is used: the *)
(* parts, or a sequence of as many parts as there are colons plus one.    *)
Split(s) ==
    IF Cardinality(Colons(s)) = 1
      THEN LET c == CHOOSE c \in Colons(s) : TRUE
           IN  <<SubSeq(s, 1, c - 1), Drop(s, c)>>
      ELSE [i \in 1 .. Cardinality(Colons(s)) + 1 |-> <<>>]

(* ParseInstanceKey: two parts or an error; then the port by Sscanf. *)
ParseInstanceKey(s) ==
    LET parts == Split(s)
        port  == IF Len(parts) = 2 THEN SscanfInt(parts[2]) ELSE [ok |-> FALSE]
    IN  IF Len(parts) # 2 \/ ~port.ok THEN [ok |-> FALSE]
        ELSE [ok |-> TRUE, key |-> [Hostname |-> parts[1], Port |-> port.val]]

(* InstanceKey.String: fmt.Sprintf("%s:%d", Hostname, Port). *)
String(key) ==
    key.Hostname \o <<":">>
        \o (IF key.Port < 0 THEN <<"-">> \o DecimalDigits(-key.Port)
            ELSE DecimalDigits(key.Port))

(* The loop of GetClusterPoolInstancesForPool and SnapshotTopologies: the *)
(* keys of the strings that parse, in order; the others are skipped.     *)
ParsedKeys(list) ==
    LET parsed == [i \in 1 .. Len(list) |-> ParseInstanceKey(list[i])]
        IsOk(r) == r.ok
    IN  [j \in 1 .. Len(SelectSeq(parsed, IsOk)) |-> SelectSeq(parsed, IsOk)[j].key]

VARIABLES
    input,   \* the string, or list of strings, of the call in progress
    result   \* what the call returned

vars == <<input, result>>

NoCall == [op |-> "none"]

Lists == UNION {[1 .. m -> PoolStrings] : m \in 0 .. MaxKeys}

Init == input = NoCall /\ result = NoCall

(* A caller parses a host:port string. *)
Parse(s) ==
    /\ input = NoCall
    /\ input' = [op |-> "parse", s |-> s]
    /\ result' = ParseInstanceKey(s)

(* A pool or snapshot façade converts the decoded string slice into keys. *)
PoolKeys(list) ==
    /\ input = NoCall
    /\ input' = [op |-> "pool", list |-> list]
    /\ result' = [ok |-> TRUE, keys |-> ParsedKeys(list)]

(* The call returns; the caller may call again. *)
Return ==
    /\ input # NoCall
    /\ input' = NoCall /\ result' = NoCall

Next ==
    \/ \E s \in Inputs : Parse(s)
    \/ \E list \in Lists : PoolKeys(list)
    \/ Return

Spec == Init /\ [][Next]_vars

(***************************** Reference format ****************************)

(* The canonical form the spec gives (section 3): exactly one colon, and  *)
(* a port made of decimal digits only.                                     *)
WellFormed(s) ==
    /\ Cardinality(Colons(s)) = 1
    /\ LET c == CHOOSE c \in Colons(s) : TRUE
       IN  /\ c < Len(s)
           /\ \A i \in c + 1 .. Len(s) : s[i] \in DigitChars

HostOf(s) == SubSeq(s, 1, (CHOOSE c \in Colons(s) : TRUE) - 1)
PortOf(s) == Drop(s, CHOOSE c \in Colons(s) : TRUE)

Parsing == input # NoCall /\ input.op = "parse"

(****************************** Properties *********************************)

(* ParseInstanceKey accepts every well-formed key and returns its host and *)
(* the decimal value of its port (spec section 8).                         *)
ParseAcceptsWellFormed ==
    Parsing /\ WellFormed(input.s) =>
        result = [ok |-> TRUE, key |-> [Hostname |-> HostOf(input.s),
                                        Port |-> DecimalValue(PortOf(input.s))]]

(* ParseInstanceKey rejects a port that is not made of decimal digits     *)
(* (spec sections 3 and 8).                                                *)
ParseRejectsNonNumericPort ==
    Parsing /\ result.ok => WellFormed(input.s)

(* Parsing a well-formed key and formatting it with String gives back the *)
(* same string (spec section 8).                                           *)
ParseFormatRoundTrip ==
    Parsing /\ WellFormed(input.s) => result.ok /\ String(result.key) = input.s

(* The pool and snapshot façades return a key for every string the server *)
(* listed, or an error: a malformed key is not dropped without a word     *)
(* (spec section 4.2: mismatches are surfaced, not coerced).              *)
PoolKeysComplete ==
    input # NoCall /\ input.op = "pool" => Len(result.keys) = Len(input.list)
=============================================================================
