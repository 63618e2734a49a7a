---------------------------- MODULE RequestData ----------------------------
(***************************************************************************)
(* WhiteList, Base64 and Cookie composed along the life of one deflect     *)
(* cookie: the white lister loads its list, a response carries a cookie    *)
(* whose value Base64::Encode made, the browser sends it back among others *)
(* (external), the white lister looks at the client and, if it is not in   *)
(* the list, check_cookie finds the cookie in the jar and its value is     *)
(* decoded.                                                                *)
(***************************************************************************)
EXTENDS WhiteList, Base64, Cookie

\* The parameters are a section of the white lister and a payload.
CONSTANTS Lists,          \* sections of the white lister
          Payloads(_),    \* what cookies are made of
          Clients(_),     \* pairs of host and address
          Before(_), After, \* what a browser may send around the cookie
          Jars(_, _)      \* what else may be sent

Plain == (1..127) \ {13}
\* Behind position p there is a cookie that is not banjax's, up to the
\* semicolon at q: spaces, a name, spaces, and a value if there is a "=".
OtherCookie(b, p, q) ==
    /\ b[q] = Semicolon /\ \A i \in p + 1..q - 1 : b[i] # Semicolon
    /\ \E i, j, k \in p..q - 1 :
          /\ i <= j /\ j <= k
          /\ \A n \in p + 1..i : b[n] \in Spaces
          /\ \A n \in i + 1..j : b[n] \in NameChars
          /\ \A n \in j + 1..k : b[n] \in Spaces
          /\ k + 1 = q \/ b[k + 1] = Equals
          /\ SubSeq(b, i + 1, j) # Deflect
\* Cookies before the one of banjax.
OtherCookies(b) ==
    /\ b \in Seq(Plain)
    /\ \A p \in 0..Len(b) : p = 0 \/ b[p] = Semicolon =>
          \/ \A n \in p + 1..Len(b) : b[n] \in Spaces
          \/ \E q \in p + 1..Len(b) : OtherCookie(b, p, q)
\* What ends the value of the cookie: the end of the jar or of the line, or a
\* semicolon, and what follows it.
EndsValue(a) ==
    /\ a \in Seq(1..127)
    /\ \E n \in 0..Len(a) :
          /\ \A i \in 1..n : a[i] \in Spaces \ {13}
          /\ \/ n = Len(a)
             \/ n < Len(a) /\ a[n + 1] = Semicolon
             \/ n + 2 = Len(a) /\ is_eol_at(a, n + 1)

ASSUME RequestAssumption ==
    /\ Deflect \in Seq(NameChars) /\ Deflect # << >>
    /\ \A section \in Lists : /\ section \in Seq(Entry)
                              /\ Payloads(section) \subseteq Seq(0..255)
                              /\ Clients(section) \subseteq Hosts \X Addresses
                              /\ \A b \in Before(section) : OtherCookies(b)
    /\ \A a \in After : EndsValue(a)

VARIABLE genuine        \* history: the jar has the cookie that was set

rdvars == <<listvars, b64vars, cookievars, genuine>>

RequestInit ==
    /\ \E section \in Lists :
          ListInit(section) /\ \E bytes \in Payloads(section) : EncodeInit(bytes)
    /\ DecodeInit /\ ParseInit /\ genuine = FALSE

Load == LoadEntry /\ UNCHANGED <<b64vars, cookievars, genuine>>

SetCookie ==
    /\ lister = "loading" /\ loading = Len(entries)
    /\ Encode /\ UNCHANGED <<listvars, cookievars, genuine>>

Request ==
    /\ encoder = "returned"
    /\ \E c \in Clients(entries) : ListRequest(c[1], c[2])
    /\ UNCHANGED <<b64vars, cookievars, genuine>>

\* check_cookie starts on the jar that came with the request.
CheckCookie ==
    /\ lister = "passed on"
    /\ \/ \E b \in Before(entries), a \in After :
             ParseCall(b \o Deflect \o <<Equals>> \o retval \o a) /\ genuine' = TRUE
       \/ \E jar \in Jars(entries, bindata) : ParseCall(jar) /\ genuine' = FALSE
    /\ UNCHANGED <<listvars, b64vars>>

Parse == ParseStep /\ UNCHANGED <<listvars, b64vars, genuine>>

DecodeCookie ==
    /\ parser = "found"
    /\ DecodeCall(found) \/ Decode
    /\ UNCHANGED <<listvars, cookievars, genuine>>

RequestNext == Load \/ SetCookie \/ Request \/ CheckCookie \/ Parse \/ DecodeCookie

\* The handlers run to their end: nothing in them waits.
RequestSpec == RequestInit /\ [][RequestNext]_rdvars /\ WF_rdvars(RequestNext)

-----------------------------------------------------------------------------
(* A cookie that banjax set comes back to it as it was: it is found among   *)
(* well-formed cookies, the "=" that pad its value included, and decoding   *)
(* its value gives the bytes that were encoded, although the accumulator is *)
(* narrower than the text (Encode, consume, Decode).                        *)
CookieReturned ==
    /\ genuine => parser # "not found" /\ decoder # "thrown"
    /\ genuine /\ decoder = "returned" => decoded = bindata

(* The loop of check_cookie comes to an end for every jar, so each cookie   *)
(* that consume returns must shorten it, and so does Decode.                *)
CheckEnds == (parser = "consume") ~> (parser \in {"found", "not found"})
=============================================================================
