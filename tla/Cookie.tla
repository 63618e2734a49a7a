------------------------------- MODULE Cookie -------------------------------
(***************************************************************************)
(* Cookie::consume (cookie.cpp) and the loop of Challenger::check_cookie   *)
(* that takes cookies off the jar until it meets the one named "deflect".  *)
(* Characters are their ASCII codes; what is behind the end of the jar is  *)
(* the terminating NUL of the string that holds it.                        *)
(***************************************************************************)
EXTENDS Integers, Sequences

CONSTANT Deflect   \* the name of banjax's cookie

VARIABLES
    cookie_s,    \* what is left of the jar
    name,        \* the name of the cookie that is being parsed
    found,       \* the value of the deflect cookie
    parser       \* where consume, or the loop around it, is

cookievars == <<cookie_s, name, found, parser>>

NUL == 0
Semicolon == 59
Equals == 61
Spaces == 9..13 \cup {32}
NameChars == (1..127) \ (Spaces \cup {Semicolon, Equals})

At(s, i) == IF i \in DOMAIN s THEN s[i] ELSE NUL
Drop(s, n) == SubSeq(s, n + 1, Len(s))
\* How many characters at the start, and at the end, are in a set.
Span(s, chars) ==
    CHOOSE n \in 0..Len(s) : (\A i \in 1..n : s[i] \in chars) /\ (n < Len(s) => s[n + 1] \notin chars)
SpanBack(s, chars) ==
    CHOOSE n \in 0..Len(s) :
        /\ \A i \in Len(s) - n + 1..Len(s) : s[i] \in chars
        /\ n < Len(s) => s[Len(s) - n] \notin chars

trim_space_prefix(s) == Drop(s, Span(s, Spaces))
trim_space_suffix(s) == SubSeq(s, 1, Len(s) - SpanBack(s, Spaces))
is_eol_at(s, i) == At(s, i) = 13 /\ At(s, i + 1) = 10

ParseInit ==
    cookie_s = << >> /\ name = << >> /\ found = << >> /\ parser = "idle"

ParseCall(jar) ==
    /\ parser = "idle"
    /\ cookie_s' = jar /\ parser' = "consume"
    /\ UNCHANGED <<name, found>>

\* consume returns a cookie, and the loop goes on unless it is the one; or
\* it returns none.
Return(n, value) ==
    /\ parser' = IF n = Deflect THEN "found" ELSE "consume"
    /\ found' = IF n = Deflect THEN value ELSE found
    /\ UNCHANGED name
ReturnNone == parser' = "not found" /\ UNCHANGED <<name, found>>
Proceed(where) == parser' = where /\ UNCHANGED found

Consume ==
    /\ parser = "consume"
    /\ cookie_s' = trim_space_prefix(cookie_s)
    /\ IF cookie_s' = << >> THEN ReturnNone ELSE Proceed("name") /\ UNCHANGED name

\* A jar that ends in the middle.
AtNulGoesOn == Proceed("consume") /\ UNCHANGED name
AtNul == ReturnNone

\* The name token; an empty name must be followed by "=", or be a lone ";".
ConsumeName ==
    /\ parser = "name"
    /\ \/ /\ cookie_s[1] = Semicolon
          /\ cookie_s' = Drop(cookie_s, 1) /\ Return(<< >>, << >>)
       \/ cookie_s[1] = NUL /\ AtNul /\ UNCHANGED cookie_s
       \/ /\ cookie_s[1] \notin {Semicolon, NUL}
          /\ name' = SubSeq(cookie_s, 1, Span(cookie_s, NameChars))
          /\ cookie_s' = Drop(cookie_s, Span(cookie_s, NameChars))
          /\ Proceed("after name")

\* "a===b" is "a=b"
SkipEquals(s) == Drop(s, Span(s, {Equals}))

ConsumeSeparator ==
    /\ parser = "after name"
    /\ \E s \in {trim_space_prefix(cookie_s)} :
          \/ s = << >> /\ cookie_s' = s /\ Return(name, << >>)
          \/ s # << >> /\ s[1] \in {NUL, Semicolon} /\ cookie_s' = Drop(s, 1) /\ Return(name, << >>)
          \/ s # << >> /\ s[1] = Equals /\ cookie_s' = SkipEquals(s) /\ Proceed("value") /\ UNCHANGED name
          \/ s # << >> /\ s[1] \notin {NUL, Semicolon, Equals} /\ cookie_s' = s /\ ReturnNone

\* The positions at which a value ends, and how long it is.
EndsAt(s, i) == s[i] \in {Semicolon, NUL} \/ is_eol_at(s, i)
ValueEnd(s) ==
    CHOOSE n \in 0..Len(s) : (\A i \in 1..n : ~EndsAt(s, i)) /\ (n < Len(s) => EndsAt(s, n + 1))

ConsumeValue ==
    /\ parser = "value"
    /\ \E s \in {trim_space_prefix(cookie_s)} : \E val_end \in {ValueEnd(s)} :
          /\ Return(name, trim_space_suffix(SubSeq(s, 1, val_end)))
          /\ cookie_s' = Drop(s, IF At(s, val_end + 1) = Semicolon THEN val_end + 1 ELSE val_end)

ParseStep == Consume \/ ConsumeName \/ ConsumeSeparator \/ ConsumeValue
=============================================================================
