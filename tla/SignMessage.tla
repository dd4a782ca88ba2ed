----------------------------- MODULE SignMessage -----------------------------
(***************************************************************************)
(* sign_message and verify_signature of lithe-wallet                       *)
(* (src/SimpleWallet/SimpleWallet.cpp, lines 1180-1234).                   *)
(*                                                                         *)
(* sign_message prints Base58 of std::string(reinterpret_cast<char*>(&sig))*)
(* (line 1194): a C string, so it stops at the first zero byte of the      *)
(* signature, or, when the signature has none, runs on into whatever       *)
(* follows it in memory until a zero byte.  verify_signature decodes the  *)
(* text and memcpy's sizeof(sig) bytes from it (line 1221): past the end   *)
(* of a shorter string it copies the terminating zero and then whatever   *)
(* lies beyond.  Both reads past an object are undefined behaviour; the   *)
(* model lets those bytes be anything.                                     *)
(*                                                                         *)
(* Tools::Base58 (outside src/) decodes exactly the bytes it encoded, and *)
(* check_signature accepts the signature generate_signature made for the  *)
(* message and key, and no other bytes.                                    *)
(***************************************************************************)
EXTENDS Naturals, SequencesExt

CONSTANTS
    SigLen,     \* sizeof(Crypto::Signature): 64
    MaxByte,    \* bytes are 0..MaxByte (255 in the code)
    JunkLen     \* bound on the bytes read past the signature by line 1194

VARIABLES
    sig,        \* the signature generate_signature produced
    printed,    \* the bytes sign_message encoded and printed
    verdict,    \* what verify_signature said of the printed signature
    signed      \* sign_message has run

vars == <<sig, printed, verdict, signed>>

Bytes == 0..MaxByte
Signatures == [1..SigLen -> Bytes]

(* The C string starting at a signature followed in memory by the bytes   *)
(* after: everything before the first zero byte.                           *)
CString(mem) ==
    LET zeros == {i \in 1..Len(mem) : mem[i] = 0}
    IN  IF zeros = {} THEN mem ELSE SubSeq(mem, 1, Min(zeros) - 1)

(* memcpy(&sig, decoded.data(), sizeof(sig)): the decoded bytes, the      *)
(* string's terminating zero, then the bytes beyond it.                   *)
CopySignature(decoded, beyond) ==
    [i \in 1..SigLen |->
        IF i <= Len(decoded) THEN decoded[i]
        ELSE IF i = Len(decoded) + 1 THEN 0
        ELSE beyond[i]]

Init ==
    /\ sig = [i \in 1..SigLen |-> 0]
    /\ printed = <<>>
    /\ verdict = "none"
    /\ signed = FALSE

(* sign_message, lines 1180-1197, for some message: the bytes after the   *)
(* signature in memory are nonzero up to JunkLen of them, then zero.       *)
sign_message ==
    /\ ~signed
    /\ \E s \in Signatures, after \in SeqOf(1..MaxByte, JunkLen) :
          /\ sig' = s
          /\ printed' = CString(s \o after \o <<0>>)
    /\ signed' = TRUE
    /\ UNCHANGED verdict

(* verify_signature, lines 1199-1234, given the same message, the         *)
(* signer's address and "Sig" followed by the printed text.               *)
verify_signature ==
    /\ signed
    /\ verdict = "none"
    /\ \E beyond \in Signatures :
          verdict' = IF CopySignature(printed, beyond) = sig
                     THEN "valid" ELSE "invalid"
    /\ UNCHANGED <<sig, printed, signed>>

Next == sign_message \/ verify_signature

Spec == Init /\ [][Next]_vars

(* A signature sign_message printed is accepted by verify_signature for  *)
(* the same message and address ("Valid Signature.").                     *)
SignedVerifies == verdict # "invalid"

=============================================================================
