-------------------------- MODULE WalletTextProofs --------------------------
(***************************************************************************)
(* Proofs about the text parsers, for every url and every list of TXT     *)
(* records of any length.  Each position std::string::find returns is    *)
(* modelled as the least index with a property (Min of FiniteSetsExt).    *)
(* That a nonempty set of naturals has a least element follows from the  *)
(* well-foundedness of < on Nat (WellFoundedInduction); from it each find *)
(* is characterised once, by FindFromSpec, and both parsers are reasoned  *)
(* about through that lemma alone.                                        *)
(***************************************************************************)
EXTENDS WalletText, WellFoundedInduction, SequenceTheorems, TLAPS

(* A nonempty set of naturals has a least element, and Min returns it.    *)
LEMMA MinNat ==
    ASSUME NEW S \in SUBSET Nat, S # {}
    PROVE  /\ Min(S) \in S
           /\ \A y \in S : Min(S) <= y
<1>1. IsWellFoundedOn(OpToRel(<, Nat), Nat)
    BY ZenonT(30), NatLessThanWellFounded
<1>2. PICK x \in S : \A y \in S : ~(<<y, x>> \in OpToRel(<, Nat))
    BY ZenonT(30), <1>1, WFMin
<1>3. \A y \in S : x <= y
    <2> TAKE y \in S
    <2>1. ~(<<y, x>> \in OpToRel(<, Nat))
        BY ZenonT(30), <1>2
    <2>2. <<y, x>> \in Nat \X Nat
        OBVIOUS
    <2>3. ~(y < x)
        BY ZenonT(30), <2>1, <2>2 DEF OpToRel
    <2>4. QED
        BY <2>3
<1>4. \E z \in S : \A y \in S : z =< y
    BY <1>3
<1>5. QED
    BY ZenonT(30), <1>4 DEF Min

(* s.find(c, from) is npos when no c lies at or after from, and otherwise *)
(* the first position at or after from that holds c.                      *)
LEMMA FindFromSpec ==
    ASSUME NEW S, NEW s \in Seq(S), NEW c, NEW from \in Int
    PROVE  \/ /\ FindFrom(s, c, from) = NPOS
              /\ \A i \in 0..Len(s) - 1 : i >= from => s[i + 1] # c
           \/ /\ FindFrom(s, c, from) \in 0..Len(s) - 1
              /\ FindFrom(s, c, from) >= from
              /\ s[FindFrom(s, c, from) + 1] = c
              /\ \A i \in 0..FindFrom(s, c, from) - 1 :
                    i >= from => s[i + 1] # c
<1> DEFINE hits == {i \in 0..Len(s) - 1 : i >= from /\ s[i + 1] = c}
<1>1. FindFrom(s, c, from) = IF hits = {} THEN NPOS ELSE Min(hits)
    BY DEF FindFrom
<1>2. CASE hits = {}
    <2>1. FindFrom(s, c, from) = NPOS
        BY <1>1, <1>2
    <2>2. ASSUME NEW i \in 0..Len(s) - 1, i >= from
          PROVE  s[i + 1] # c
        <3>1. i \notin hits
            BY ZenonT(30), <1>2
        <3>2. QED
            BY <2>2, <3>1
    <2>3. QED
        BY <2>1, <2>2
<1>3. CASE hits # {}
    <2>1. hits \in SUBSET Nat
        OBVIOUS
    <2>2. Min(hits) \in hits /\ \A y \in hits : Min(hits) <= y
        BY ZenonT(30), <1>3, <2>1, MinNat
    <2>3. FindFrom(s, c, from) = Min(hits)
        BY <1>1, <1>3
    <2>4. Min(hits) \in 0..Len(s) - 1 /\ Min(hits) >= from
          /\ s[Min(hits) + 1] = c
        BY <2>2
    <2>5. ASSUME NEW i \in 0..Min(hits) - 1, i >= from
          PROVE  s[i + 1] # c
        <3>1. i \in 0..Len(s) - 1
            BY <2>4
        <3>2. i \notin hits
            BY <2>2
        <3>3. QED
            BY <2>5, <3>1, <3>2
    <2>6. QED
        BY <2>3, <2>4, <2>5
<1>4. QED
    BY <1>2, <1>3

(* s.find(p, from) is npos or a position where p fits in s.               *)
LEMMA FindSeqFromType ==
    ASSUME NEW S, NEW s \in Seq(S), NEW p \in Seq(S), NEW from \in Int
    PROVE  FindSeqFrom(s, p, from) \in {NPOS} \cup 0..Len(s) - Len(p)
<1> DEFINE hits == {i \in 0..Len(s) - Len(p) :
                       i >= from /\ SubSeq(s, i + 1, i + Len(p)) = p}
<1>1. FindSeqFrom(s, p, from) = IF hits = {} THEN NPOS ELSE Min(hits)
    BY DEF FindSeqFrom
<1>2. CASE hits # {}
    <2>1. hits \in SUBSET Nat
        OBVIOUS
    <2>2. Min(hits) \in hits
        BY ZenonT(30), <1>2, <2>1, MinNat
    <2>3. Min(hits) \in 0..Len(s) - Len(p)
        BY ZenonT(30), <2>2
    <2>4. QED
        BY <1>1, <1>2, <2>3
<1>3. CASE hits = {}
    BY <1>1, <1>3
<1>4. QED
    BY <1>2, <1>3

(* The smaller of two naturals is a natural at most each of them.        *)
LEMMA MinOfTwo ==
    ASSUME NEW x \in Nat, NEW y \in Nat
    PROVE  Min({x, y}) \in Nat /\ Min({x, y}) <= x /\ Min({x, y}) <= y
<1>1. Min({x, y}) \in {x, y} /\ \A z \in {x, y} : Min({x, y}) <= z
    BY MinNat
<1>2. QED
    BY <1>1

(* s.substr(a, n) holds no c when no c lies at or after a before the     *)
(* first c after a, if there is one, and n reaches no further than it.   *)
LEMMA SubstrAvoids ==
    ASSUME NEW S, NEW s \in Seq(S), NEW c, NEW a \in 0..Len(s),
           NEW n \in Nat, NEW e \in Int,
           \A i \in 0..Len(s) - 1 : i >= a /\ (e = NPOS \/ i < e) => s[i + 1] # c,
           e # NPOS => n <= e - a
    PROVE  ~Contains(Substr(s, a, n), c)
<1>1. PICK m : m = Min({n, Len(s) - a})
    OBVIOUS
<1>2. m \in Nat /\ m <= n /\ m <= Len(s) - a
    BY <1>1, MinOfTwo
<1>3. Substr(s, a, n) = SubSeq(s, a + 1, a + m)
    BY <1>1 DEF Substr
<1>4. /\ Len(SubSeq(s, a + 1, a + m))
             = IF a + 1 <= a + m THEN (a + m) - (a + 1) + 1 ELSE 0
      /\ \A k \in 1..(a + m) - (a + 1) + 1 :
             SubSeq(s, a + 1, a + m)[k] = s[(a + 1) + k - 1]
    <2>1. \A i \in a + 1..a + m : s[i] \in S
        BY <1>2
    <2>2. a + 1 \in Int /\ a + m \in Int
        BY <1>2
    <2>3. QED
        BY <2>1, <2>2, SubSeqProperties
<1>5. Len(SubSeq(s, a + 1, a + m)) = m
      /\ \A k \in 1..m : SubSeq(s, a + 1, a + m)[k] = s[a + k]
    BY <1>2, <1>4
<1>6. ASSUME NEW k \in 1..m PROVE s[a + k] # c
    <2>1. a + k - 1 \in 0..Len(s) - 1 /\ a + k - 1 >= a
        BY <1>2
    <2>2. e # NPOS => a + k - 1 < e
        BY <1>2
    <2>3. (a + k - 1) + 1 = a + k
        OBVIOUS
    <2>4. QED
        BY ZenonT(30), <2>1, <2>2, <2>3
<1>7. \A k \in 1..Len(SubSeq(s, a + 1, a + m)) : SubSeq(s, a + 1, a + m)[k] # c
    BY ZenonT(30), <1>5, <1>6
<1>8. QED
    BY ZenonT(30), <1>3, <1>7 DEF Contains

(* The host parseUrlAddress cuts out of any url holds no ':'.  It starts  *)
(* after the "://" (or at the start) and stops at the first ':' after     *)
(* that start, or runs to the end of the url when there is none.          *)
LEMMA HostNoColon ==
    ASSUME NEW u \in Seq(UrlChars)
    PROVE  ~Contains(ParseUrlAddress(u).address, ":")
<1>1. PICK pos : pos = FindSeqFrom(u, <<":", "/", "/">>, 0)
    OBVIOUS
<1>2. PICK a : a = IF pos # NPOS THEN pos + 3 ELSE 0
    OBVIOUS
<1>3. PICK colon : colon = FindFrom(u, ":", a)
    OBVIOUS
<1>4. PICK slash : slash = FindFrom(u, "/", 0)
    OBVIOUS
<1>5. PICK addrEnd : addrEnd = IF colon # NPOS THEN colon ELSE slash
    OBVIOUS
<1>6. PICK n : n = IF addrEnd = NPOS THEN Len(u) ELSE Count(u, addrEnd, a)
    OBVIOUS
<1>7. ParseUrlAddress(u).address = Substr(u, a, n)
    BY <1>1, <1>2, <1>3, <1>4, <1>5, <1>6 DEF ParseUrlAddress
<1>8. a \in 0..Len(u)
    <2>1. <<":", "/", "/">> \in Seq(UrlChars) /\ Len(<<":", "/", "/">>) = 3
        BY DEF UrlChars
    <2>2. FindSeqFrom(u, <<":", "/", "/">>, 0)
              \in {NPOS} \cup 0..Len(u) - Len(<<":", "/", "/">>)
        <3>1. 0 \in Int
            OBVIOUS
        <3>2. QED
            BY ZenonT(30), <2>1, <3>1, FindSeqFromType
    <2>3. pos \in {NPOS} \cup 0..Len(u) - 3
        BY <1>1, <2>1, <2>2
    <2>4. QED
        BY <1>2, <2>3 DEF NPOS
<1>9. \/ /\ colon = NPOS
         /\ \A i \in 0..Len(u) - 1 : i >= a => u[i + 1] # ":"
      \/ /\ colon \in 0..Len(u) - 1
         /\ colon >= a
         /\ \A i \in 0..colon - 1 : i >= a => u[i + 1] # ":"
    BY <1>3, <1>8, FindFromSpec
<1>10. slash \in {NPOS} \cup 0..Len(u) - 1
    BY <1>4, FindFromSpec
<1>11. n \in Nat /\ (colon # NPOS => n <= colon - a)
    BY <1>5, <1>6, <1>8, <1>9, <1>10 DEF Count, NPOS
<1>12. \A i \in 0..Len(u) - 1 :
          i >= a /\ (colon = NPOS \/ i < colon) => u[i + 1] # ":"
    BY <1>8, <1>9 DEF NPOS
<1>13. colon \in Int
    BY <1>9 DEF NPOS
<1>14. QED
    BY <1>7, <1>8, <1>11, <1>12, <1>13, SubstrAvoids

(* A sequence of bounded length over S is a sequence over any superset  *)
(* of S.                                                                  *)
LEMMA SeqOfIsSeq ==
    ASSUME NEW S, NEW T, S \subseteq T, NEW n \in Nat
    PROVE  SeqOf(S, n) \subseteq Seq(T)
<1> SUFFICES ASSUME NEW x \in SeqOf(S, n) PROVE x \in Seq(T)
    OBVIOUS
<1>1. PICK m \in 0..n : x \in [1..m -> S]
    BY DEF SeqOf
<1>2. x \in [1..m -> T]
    BY <1>1
<1>3. QED
    BY <1>2

LEMMA UrlNextNoColon ==
    HostHasNoColon /\ [NextUrl]_vars => HostHasNoColon'
<1> SUFFICES ASSUME HostHasNoColon, [NextUrl]_vars PROVE HostHasNoColon'
    OBVIOUS
<1>1. CASE NextUrl
    <2>1. PICK u \in Urls : parse_daemon_address(u)
        BY <1>1 DEF NextUrl
    <2>2. u \in Seq(UrlChars)
        BY WalletTextAssumption, SeqOfIsSeq DEF Urls
    <2>3. address' = ParseUrlAddress(u).address
        BY <2>1 DEF parse_daemon_address
    <2>4. QED
        BY <2>2, <2>3, HostNoColon DEF HostHasNoColon
<1>2. CASE UNCHANGED vars
    BY <1>2 DEF vars, HostHasNoColon
<1>3. QED
    BY <1>1, <1>2

(* The host init() hands to NodeRpcProxy never contains a ':', for a      *)
(* --daemon-address of any length (HostHasNoColon).                        *)
THEOREM HostHasNoColonHolds == SpecUrl => []HostHasNoColon
<1>1. Init => HostHasNoColon
    BY DEF Init, HostHasNoColon, Contains
<1>2. QED
    BY <1>1, UrlNextNoColon, PTL DEF SpecUrl

(* Where a find that cannot be npos lands: given a c at position q (0-   *)
(* based) at or after from, and no c from position lo up to q, with lo   *)
(* at most from, s.find(c, from) is q.                                    *)
LEMMA FindFromAt ==
    ASSUME NEW S, NEW s \in Seq(S), NEW c, NEW from \in Int,
           NEW lo \in Int, NEW q \in 0..Len(s) - 1,
           lo <= from, from <= q, s[q + 1] = c,
           \A k \in 0..q - 1 : k >= lo => s[k + 1] # c
    PROVE  FindFrom(s, c, from) = q
<1>1. PICK f : f = FindFrom(s, c, from)
    OBVIOUS
<1>2. \/ /\ f = NPOS
         /\ \A i \in 0..Len(s) - 1 : i >= from => s[i + 1] # c
      \/ /\ f \in 0..Len(s) - 1
         /\ f >= from
         /\ s[f + 1] = c
         /\ \A i \in 0..f - 1 : i >= from => s[i + 1] # c
    BY <1>1, FindFromSpec
<1>3. f # NPOS
    <2>1. q >= from /\ NPOS < 0
        BY DEF NPOS
    <2>2. ~(\A i \in 0..Len(s) - 1 : i >= from => s[i + 1] # c)
        BY ZenonT(30), <2>1
    <2>3. QED
        BY <1>2, <2>1, <2>2
<1>4. f \in 0..Len(s) - 1 /\ f >= from /\ s[f + 1] = c
      /\ \A i \in 0..f - 1 : i >= from => s[i + 1] # c
    BY <1>2, <1>3
<1>5. ~(f < q)
    BY <1>4
<1>6. ~(q < f)
    BY <1>4
<1>7. QED
    BY <1>1, <1>4, <1>5, <1>6

(* processServerAliasResponse refuses every record in the OpenAlias       *)
(* format when the length it tests is not the length of an address: it   *)
(* finds the marker, the key and the ';' where the format puts them, and  *)
(* the address between them has AddressLen symbols, not AcceptedLen.      *)
LEMMA FormatRefused ==
    ASSUME NEW r \in Seq(Tokens), HasValidAddress(r), NEW addr,
           AddressLen # AcceptedLen
    PROVE  ~ProcessServerAliasResponse(r, addr).ok
<1>1. PICK i, j \in 1..Len(r) :
        /\ i < j
        /\ r[i] = "OA"
        /\ \A k \in 1..i - 1 : r[k] # "OA"
        /\ r[j] = "RA"
        /\ \A k \in i..j - 1 : r[k] # "RA"
        /\ j + AddressLen + 1 <= Len(r)
        /\ \A k \in j + 1..j + AddressLen : r[k] = "c"
        /\ r[j + AddressLen + 1] = "SEP"
    BY DEF HasValidAddress
<1>2. AddressLen \in Nat
    BY WalletTextAssumption
<1>3. FindFrom(r, "OA", 0) = i - 1
    <2>1. /\ i - 1 \in 0..Len(r) - 1 /\ 0 \in Int /\ 0 <= 0 /\ 0 <= i - 1
          /\ r[(i - 1) + 1] = "OA"
          /\ \A k \in 0..(i - 1) - 1 : k >= 0 => r[k + 1] # "OA"
        BY <1>1
    <2>2. QED
        BY ZenonT(120), <2>1, FindFromAt
<1>4. FindFrom(r, "RA", i - 1) = j - 1
    <2>1. /\ j - 1 \in 0..Len(r) - 1 /\ i - 1 \in Int /\ i - 1 <= i - 1
          /\ i - 1 <= j - 1
          /\ r[(j - 1) + 1] = "RA"
          /\ \A k \in 0..(j - 1) - 1 : k >= i - 1 => r[k + 1] # "RA"
        BY <1>1
    <2>2. QED
        BY ZenonT(120), <2>1, FindFromAt
<1>5. FindFrom(r, "SEP", j) = j + AddressLen
    <2>1. /\ j + AddressLen \in 0..Len(r) - 1 /\ j \in Int /\ j <= j
          /\ j <= j + AddressLen
          /\ r[(j + AddressLen) + 1] = "SEP"
          /\ \A k \in 0..(j + AddressLen) - 1 : k >= j => r[k + 1] # "SEP"
        BY <1>1, <1>2
    <2>2. QED
        BY ZenonT(120), <2>1, FindFromAt
<1>6. i - 1 # NPOS /\ j - 1 # NPOS /\ j + AddressLen # NPOS
    BY <1>1, <1>2 DEF NPOS
<1>7. (j - 1) + 1 = j /\ (j + AddressLen) - j # AcceptedLen
    BY <1>1, <1>2
<1>8. QED
    BY <1>3, <1>4, <1>5, <1>6, <1>7 DEF ProcessServerAliasResponse

(* Whatever the number and length of the TXT records, an alias whose     *)
(* every record holds a Lithe address in the OpenAlias format never       *)
(* resolves: line 348 tests for 98 characters where an address has 99,    *)
(* and resolveAlias throws "Failed to parse server response".             *)
THEOREM ValidAliasNeverResolves ==
    AddressLen # AcceptedLen =>
        \A recs \in Seq(Seq(Tokens)) :
            (\A i \in 1..Len(recs) : HasValidAddress(recs[i]))
                => ~ResolveAlias(recs).ok
<1> SUFFICES ASSUME AddressLen # AcceptedLen, NEW recs \in Seq(Seq(Tokens)),
                    \A i \in 1..Len(recs) : HasValidAddress(recs[i])
             PROVE  ~ResolveAlias(recs).ok
    OBVIOUS
<1> DEFINE accepted == {i \in 1..Len(recs) :
                           ProcessServerAliasResponse(recs[i], <<>>).ok}
<1>1. ASSUME NEW i \in 1..Len(recs)
      PROVE  ~ProcessServerAliasResponse(recs[i], <<>>).ok
    <2>1. recs[i] \in Seq(Tokens) /\ HasValidAddress(recs[i])
        OBVIOUS
    <2>2. QED
        BY <2>1, FormatRefused
<1>2. accepted = {}
    BY <1>1
<1>3. QED
    BY <1>2 DEF ResolveAlias

=============
