------------------------------ MODULE WalletText ------------------------------
(***************************************************************************)
(* The two text parsers of src/SimpleWallet/SimpleWallet.cpp that decide   *)
(* where the wallet connects and where it sends money:                     *)
(*                                                                         *)
(*  - parseUrlAddress (lines 81-102) splits --daemon-address into a host   *)
(*    and a port;                                                          *)
(*  - resolveAlias (lines 1619-1635) looks an alias up in DNS TXT records *)
(*    and takes the first record processServerAliasResponse (lines        *)
(*    330-361) accepts.                                                    *)
(*                                                                         *)
(* A string is a sequence of symbols.  std::string::find and substr are    *)
(* written with 0-based positions as in the code; NPOS is                  *)
(* std::string::npos.  An unsigned difference that wraps (size_t) is       *)
(* larger than every string here, and substr clamps its count to the rest *)
(* of the string, so the wrapped value is represented by that clamp.       *)
(*                                                                         *)
(* A DNS record is a sequence of tokens: "OA" stands for the marker        *)
(* "oa1:lxth", "RA" for "recipient_address=", "c" for one address         *)
(* character and "SEP" for the separator ";".                            *)
(*                                                                         *)
(* A Lithe address is Base58 of the varint of the prefix 0xe6dc4e2 (4      *)
(* bytes, CryptoNoteConfig.h:20), the two public keys (64 bytes) and a    *)
(* 4-byte checksum: 72 bytes, 9 blocks of 8, 99 characters.  Line 348     *)
(* accepts 98; the comment at line 347 says 95.                           *)
(***************************************************************************)
EXTENDS Integers, SequencesExt, FiniteSetsExt

CONSTANTS
    UrlLen,      \* bound on the length of a --daemon-address
    RecordLen,   \* bound on the length of a TXT record, in tokens
    MaxRecords,  \* bound on the number of TXT records of an alias
    AddressLen,  \* the length of a Lithe address (99)
    AcceptedLen  \* the length processServerAliasResponse accepts (98)

ASSUME WalletTextAssumption ==
    /\ UrlLen \in Nat
    /\ RecordLen \in Nat
    /\ MaxRecords \in Nat
    /\ AddressLen \in Nat \ {0}
    /\ AcceptedLen \in Nat \ {0}

VARIABLES
    url,        \* the --daemon-address being parsed
    address,    \* m_daemon_host as parseUrlAddress leaves it
    port,       \* m_daemon_port: 80, or the text after the ':'
    parsed,     \* --daemon-address has been parsed (once, by init)
    records,    \* the TXT records fetch_dns_txt returned
    resolved    \* what resolveAlias returned: ok is FALSE when it threw

vars == <<url, address, port, parsed, records, resolved>>

-----------------------------------------------------------------------------
NPOS == -1

UrlChars == {"h", ":", "/", "1"}
Urls == SeqOf(UrlChars, UrlLen)

Tokens == {"OA", "RA", "c", "SEP"}
Records == SeqOf(Tokens, RecordLen)

(* s.find(c, from) for one symbol c.                                       *)
FindFrom(s, c, from) ==
    LET hits == {i \in 0..Len(s) - 1 : i >= from /\ s[i + 1] = c}
    IN  IF hits = {} THEN NPOS ELSE Min(hits)

(* s.find(p, from) for a string p.                                         *)
FindSeqFrom(s, p, from) ==
    LET hits == {i \in 0..Len(s) - Len(p) :
                    i >= from /\ SubSeq(s, i + 1, i + Len(p)) = p}
    IN  IF hits = {} THEN NPOS ELSE Min(hits)

(* s.substr(pos, n): at most n symbols from position pos.                 *)
Substr(s, pos, n) == SubSeq(s, pos + 1, pos + Min({n, Len(s) - pos}))

(* The count a - b of type size_t, as substr uses it: a wrapped value     *)
(* exceeds the rest of s, so it reads to the end of s.                    *)
Count(s, a, b) == IF a >= b THEN a - b ELSE Len(s)

(* Variant of ParseUrlAddress for mutation testing: the ':' is searched  *)
(* from the start of the url instead of from the host.                    *)
ParseUrlAddress_colonFromStart(u) ==
    LET pos == FindSeqFrom(u, <<":", "/", "/">>, 0)
        addrStart == IF pos # NPOS THEN pos + 3 ELSE 0
        colon == FindFrom(u, ":", 0)
        portEnd == FindFrom(u, "/", colon)
        addrEnd == IF colon # NPOS THEN colon ELSE FindFrom(u, "/", 0)
    IN  [address |-> Substr(u, addrStart,
                            IF addrEnd = NPOS THEN Len(u)
                            ELSE Count(u, addrEnd, addrStart)),
         port |-> IF colon = NPOS THEN [given |-> FALSE, text |-> <<>>]
                  ELSE [given |-> TRUE,
                        text |-> Substr(u, colon + 1,
                                        IF portEnd = NPOS THEN Len(u)
                                        ELSE portEnd - colon - 1)]]

(* parseUrlAddress, lines 81-102.  The port is the text given to          *)
(* fromString<uint16_t>, or not given (80); the host is the text from     *)
(* addrStart to addrEnd.                                                  *)
ParseUrlAddress(u) ==
    LET pos == FindSeqFrom(u, <<":", "/", "/">>, 0)
        addrStart == IF pos # NPOS THEN pos + 3 ELSE 0
        colon == FindFrom(u, ":", addrStart)
        portEnd == FindFrom(u, "/", colon)
        addrEnd == IF colon # NPOS THEN colon ELSE FindFrom(u, "/", 0)
    IN  [address |-> Substr(u, addrStart,
                            IF addrEnd = NPOS THEN Len(u)
                            ELSE Count(u, addrEnd, addrStart)),
         port |-> IF colon = NPOS THEN [given |-> FALSE, text |-> <<>>]
                  ELSE [given |-> TRUE,
                        text |-> Substr(u, colon + 1,
                                        IF portEnd = NPOS THEN Len(u)
                                        ELSE portEnd - colon - 1)]]

(* processServerAliasResponse, lines 330-361: find the marker, then the  *)
(* key after it; the address runs to the next ';' and must have           *)
(* AcceptedLen symbols.  When there is no ';' it returns true and leaves   *)
(* the address as it was.                                                 *)
ProcessServerAliasResponse(s, addr) ==
    LET p0 == FindFrom(s, "OA", 0)
        p1 == IF p0 = NPOS THEN NPOS ELSE FindFrom(s, "RA", p0)
        pos == p1 + 1
        pos2 == FindFrom(s, "SEP", pos)
    IN  IF p0 = NPOS \/ p1 = NPOS THEN [ok |-> FALSE, address |-> addr]
        ELSE IF pos2 = NPOS THEN [ok |-> TRUE, address |-> addr]
        ELSE IF pos2 - pos = AcceptedLen
             THEN [ok |-> TRUE, address |-> Substr(s, pos, AcceptedLen)]
             ELSE [ok |-> FALSE, address |-> addr]

(* resolveAlias, lines 1619-1635: the first record that is accepted gives *)
(* the address; ok is FALSE when none is (the runtime_error of line 1634). *)
ResolveAlias(recs) ==
    LET accepted == {i \in 1..Len(recs) :
                        ProcessServerAliasResponse(recs[i], <<>>).ok}
    IN  IF accepted = {} THEN [ok |-> FALSE, address |-> <<>>]
        ELSE [ok |-> TRUE,
              address |-> ProcessServerAliasResponse(recs[Min(accepted)], <<>>).address]

NoAlias == [ok |-> FALSE, address |-> <<>>]

-----------------------------------------------------------------------------
Init ==
    /\ url = <<>>
    /\ address = <<>>
    /\ port = [given |-> FALSE, text |-> <<>>]
    /\ parsed = FALSE
    /\ records = <<>>
    /\ resolved = NoAlias

(* init(), line 521 (and the RPC mode, line 1993): --daemon-address is     *)
(* split into m_daemon_host and m_daemon_port, once.                      *)
parse_daemon_address(u) ==
    LET r == ParseUrlAddress(u)
    IN  /\ ~parsed
        /\ url' = u
        /\ address' = r.address
        /\ port' = r.port
        /\ parsed' = TRUE
        /\ UNCHANGED <<records, resolved>>

(* An alias given to transfer is resolved against the TXT records DNS     *)
(* returned.                                                              *)
resolve_alias(recs) ==
    /\ records = <<>>
    /\ records' = recs
    /\ resolved' = ResolveAlias(recs)
    /\ UNCHANGED <<url, address, port, parsed>>

(* The transfer takes the address (or reports the error) and forgets it. *)
use_alias ==
    /\ records # <<>>
    /\ records' = <<>>
    /\ resolved' = NoAlias
    /\ UNCHANGED <<url, address, port, parsed>>

(* The two parsers do not share state; each is checked on its own.        *)
NextUrl == \E u \in Urls : parse_daemon_address(u)
NextAlias ==
    \/ /\ records = <<>>
       /\ \E recs \in SeqOf(Records, MaxRecords) \ {<<>>} : resolve_alias(recs)
    \/ use_alias

SpecUrl == Init /\ [][NextUrl]_vars
SpecAlias == Init /\ [][NextAlias]_vars

-----------------------------------------------------------------------------
(* Reference definitions.                                                  *)

(* The host of a url: after the first "://", if any, up to the first ':' *)
(* or '/' after that, or to the end.                                       *)
RefHost(u) ==
    LET pos == FindSeqFrom(u, <<":", "/", "/">>, 0)
        start == IF pos # NPOS THEN pos + 3 ELSE 0
        ends == {i \in start..Len(u) - 1 : u[i + 1] \in {":", "/"}}
        stop == IF ends = {} THEN Len(u) ELSE Min(ends)
    IN  SubSeq(u, start + 1, stop)

(* A TXT record that carries an address, in the OpenAlias format: its     *)
(* first marker, later the first key after that marker, then a Lithe      *)
(* address (AddressLen address characters) and a ';'.                     *)
(* A Lithe address: AddressLen address characters.                        *)
IsAddress(x) == Len(x) = AddressLen /\ \A k \in 1..Len(x) : x[k] = "c"

HasValidAddress(r) ==
    \E i, j \in 1..Len(r) :
        /\ i < j
        /\ r[i] = "OA"
        /\ \A k \in 1..i - 1 : r[k] # "OA"
        /\ r[j] = "RA"
        /\ \A k \in i..j - 1 : r[k] # "RA"
        /\ j + AddressLen + 1 <= Len(r)
        /\ \A k \in j + 1..j + AddressLen : r[k] = "c"
        /\ r[j + AddressLen + 1] = "SEP"

-----------------------------------------------------------------------------
(* The host parseUrlAddress gives never contains a ':', with or without a *)
(* scheme and a port: NodeRpcProxy is never asked to connect to           *)
(* "host:port" as a host name.                                            *)
HostHasNoColon == ~Contains(address, ":")

ResolvesToAddress ==
    /\ resolved.ok => IsAddress(resolved.address)
    /\ ~resolved.ok => \A i \in 1..Len(records) : ~HasValidAddress(records[i])

=============================================================================
