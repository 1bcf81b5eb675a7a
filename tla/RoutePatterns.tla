--------------------------- MODULE RoutePatterns ---------------------------
(***************************************************************************)
(* The patterns of MS_SMTP_ROUTES (internal/config): which of them are     *)
(* accepted, and which recipients they match.  Addresses and patterns are  *)
(* sequences of characters, in small letters.                              *)
(***************************************************************************)
EXTENDS Integers, Sequences, FiniteSets, SequencesExt

STAR == "*"   AT == "@"

Count(s, char) == Cardinality({i \in DOMAIN s : s[i] = char})

\* What ParseRoutes asks of a pattern.
Valid(pattern) == pattern # <<>> /\ Count(pattern, STAR) <= 1

\* (Mutation: the @ of a local part is cut off with the wildcard.)
MatchesPrefix(pattern, address) ==
    IF pattern = <<STAR>> THEN TRUE
    ELSE IF IsPrefix(<<STAR, AT>>, pattern) THEN IsSuffix(Tail(pattern), address)
    ELSE IF IsPrefix(<<AT>>, pattern) THEN IsSuffix(pattern, address)
    ELSE IF IsSuffix(<<AT, STAR>>, pattern) THEN IsPrefix(Front(Front(pattern)), address)
    ELSE address = pattern

Matches(pattern, address) ==
    IF pattern = <<STAR>> THEN TRUE
    ELSE IF IsPrefix(<<STAR, AT>>, pattern) THEN IsSuffix(Tail(pattern), address)
    ELSE IF IsPrefix(<<AT>>, pattern) THEN IsSuffix(pattern, address)
    ELSE IF IsSuffix(<<AT, STAR>>, pattern) THEN IsPrefix(Front(pattern), address)
    ELSE address = pattern

\* The meaning of a wildcard: it stands for any text.
Glob(pattern, address) ==
    LET star == SelectInSeq(pattern, LAMBDA char : char = STAR)
        left == SubSeq(pattern, 1, star - 1)
        right == SubSeq(pattern, star + 1, Len(pattern))
    IN  IF star = 0 THEN address = pattern
        ELSE /\ IsPrefix(left, address) /\ IsSuffix(right, address)
             /\ Len(left) + Len(right) <= Len(address)

\* The forms that are documented: an address, *@domain or @domain, local@*, *.
Address(s) == Count(s, STAR) = 0 /\ Count(s, AT) = 1
Documented(pattern) ==
    \/ pattern = <<STAR>>
    \/ Address(pattern)
    \/ IsPrefix(<<STAR, AT>>, pattern) /\ Address(Tail(pattern))
    \/ IsSuffix(<<AT, STAR>>, pattern) /\ Address(Front(pattern))

\* A pattern of a documented form is accepted, and matches just the addresses
\* it stands for; @domain stands for *@domain.  (A wildcard elsewhere is
\* accepted too, but stands for itself.)
PatternsMatch(pattern, address) ==
    Documented(pattern) =>
        /\ Valid(pattern)
        /\ Matches(pattern, address) <=>
              Glob(IF pattern[1] = AT THEN <<STAR>> \o pattern ELSE pattern, address)
=============================================================================
