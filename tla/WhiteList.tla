----------------------------- MODULE WhiteList -----------------------------
(***************************************************************************)
(* The global white list (global_white_list.h), its loading by the white   *)
(* lister and the subnet arithmetic behind it (make_mask_for_range and     *)
(* is_match of util.cpp).  Addresses are words of Bits bits, 32 in the     *)
(* code; a word is the set of the positions of its one bits.  In an entry  *)
(* host is AnyHost for a global entry and keep_bits is NoSlash when there  *)
(* is no "/".                                                              *)
(***************************************************************************)
EXTENDS Integers, Sequences

CONSTANTS Bits, Hosts, AnyHost, NoSlash, Unparsable

ASSUME WhiteListAssumption == Bits \in Nat \ {0} /\ AnyHost \notin Hosts

VARIABLES
    entries,             \* the section of the configuration
    loading,             \* how many of its entries have been loaded
    white_list, per_host_white_list,
    lister,              \* where the white lister is
    client               \* the address and the host of a request

listvars == <<entries, loading, white_list, per_host_white_list, lister, client>>

Positions == 0..Bits - 1
Addresses == {Unparsable} \cup SUBSET Positions
Entry == [host : {AnyHost} \cup Hosts, ip : Addresses, keep_bits : {NoSlash} \cup Nat]

AllOnes == Positions
ShiftedRight(word, n) == {b \in Positions : b + n \in word}
ShiftedLeft(word, n) == {b \in Positions : b - n \in word}

\* An address that does not parse is INADDR_NONE.
inet_addr(text) == IF text = Unparsable THEN AllOnes ELSE text

\* (mask >> n) << n; to shift a word by all of its bits is undefined, and the
\* builds give 0 or leave the word as it is.
Masks(n) == IF n = Bits THEN {{}, AllOnes} ELSE {ShiftedLeft(ShiftedRight(AllOnes, n), n)}

Rejects(keep_bits) == keep_bits > Bits

make_mask_for_range(entry) ==
    {<<inet_addr(entry.ip), mask>> :
        mask \in IF entry.keep_bits = NoSlash THEN {AllOnes} ELSE Masks(Bits - entry.keep_bits)}

is_match(ip, range) == range[1] \cap range[2] = inet_addr(ip) \cap range[2]

ListInit(section) ==
    /\ entries = section /\ loading = 0
    /\ white_list = << >> /\ per_host_white_list = [h \in Hosts |-> {}]
    /\ lister = "loading" /\ client = << >>

\* One turn of WhiteLister::load_config; a prefix that is too long throws.
LoadEntry ==
    /\ lister = "loading" /\ loading < Len(entries)
    /\ LET entry == entries[loading + 1]
       IN  IF entry.keep_bits # NoSlash /\ Rejects(entry.keep_bits)
           THEN lister' = "thrown" /\ UNCHANGED <<loading, white_list, per_host_white_list>>
           ELSE \E range \in make_mask_for_range(entry) :
                  /\ loading' = loading + 1
                  /\ IF entry.host = AnyHost
                     THEN /\ white_list' = Append(white_list, range)
                          /\ UNCHANGED per_host_white_list
                     ELSE /\ per_host_white_list' =
                               [per_host_white_list EXCEPT ![entry.host] = @ \cup {range}]
                          /\ UNCHANGED white_list
                  /\ UNCHANGED lister
    /\ UNCHANGED <<entries, client>>

IsGloballyListed(ip) == \E i \in DOMAIN white_list : is_match(ip, white_list[i])
IsListedAnyHost(host, ip) ==
    IsGloballyListed(ip) \/ \E h \in Hosts : \E r \in per_host_white_list[h] : is_match(ip, r)
is_white_listed(host, ip) ==
    IsGloballyListed(ip) \/ \E r \in per_host_white_list[host] : is_match(ip, r)

\* WhiteLister::on_http_request
ListRequest(host, ip) ==
    /\ lister = "loading" /\ loading = Len(entries)
    /\ client' = <<host, ip>>
    /\ lister' = IF is_white_listed(host, ip) THEN "served" ELSE "passed on"
    /\ UNCHANGED <<entries, loading, white_list, per_host_white_list>>

-----------------------------------------------------------------------------
(* A client is served by the white list exactly if it shares the "number of *)
(* matching bits" (src/README.md:138) with an entry for all hosts or for    *)
(* the host it asks for.  The exact converse leaves out entries with no bit *)
(* to match, for which the shift is undefined.                              *)
KeepBits(entry) == IF entry.keep_bits = NoSlash THEN Bits ELSE entry.keep_bits
Contains(entry, ip) ==
    \A b \in Bits - KeepBits(entry)..Bits - 1 :
        b \in inet_addr(ip) <=> b \in inet_addr(entry.ip)
Applies(entry) == entry.host \in {AnyHost, client[1]} /\ Contains(entry, client[2])
SubnetMatch ==
    /\ lister = "served" => \E i \in DOMAIN entries : Applies(entries[i])
    /\ lister = "passed on" => \A i \in DOMAIN entries : KeepBits(entries[i]) > 0 => ~Applies(entries[i])
=============================================================================
