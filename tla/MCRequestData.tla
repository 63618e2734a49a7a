--------------------------- MODULE MCRequestData ---------------------------
(* Instances of RequestData: short payloads, white lists over 3-bit         *)
(* addresses, and all short jars over the characters that consume tells     *)
(* apart.                                                                   *)
EXTENDS RequestData

SeqsUpTo(S, n) == UNION {[1..m -> S] : m \in 0..n}

Space == 32
MCDeflect == <<100>>
\* None, a cookie, a cookie with spaces, one without a value, an empty one.
MCBefore(section) ==
    IF section # << >> THEN {}
    ELSE {<< >>, <<97, Equals, 98, Semicolon, Space>>,
          <<Space, 97, Space, Equals, Space, 98, Space, 99, Semicolon>>,
          <<97, Semicolon>>, <<Semicolon>>, <<100, 97, Equals, Equals, Semicolon>>}
MCAfter == {<< >>, <<Semicolon, 97, Equals, 98>>, <<Space, 13, 10>>}
Entries == [host : {AnyHost, "here"}, ip : {{}, {1}, {0, 2}, {1, 2}, Unparsable}, keep_bits : 0..4 \cup {NoSlash}]
MCLists == SeqsUpTo(Entries, 2)
MCHosts == {"here", "there"}

\* Each part is varied while the others are kept small.
MCClients(section) ==
    IF section = << >> THEN {<<"here", {0}>>} ELSE MCHosts \X (Addresses \ {AllOnes})
MCPayloads(section) == IF section = << >> THEN SeqsUpTo({0, 77, 251, 255}, 4) ELSE {<< >>}
Alphabet == {NUL, 10, 13, Space, Semicolon, Equals, 97, 100}
MCJars(section, bytes) == IF section = << >> /\ bytes = << >> THEN SeqsUpTo(Alphabet, 4) ELSE {}
=============================================================================
