-------------------------------- MODULE Decrypt --------------------------------
(***************************************************************************)
(* The decryption at the start of the PutPacket arm (mod.rs:309-322).  The *)
(* sender encrypts the whole blocks of a packet and leaves the rest as it  *)
(* is; the code decrypts one block more than there are, of the rest filled *)
(* up with zeros, and then puts the rest back.  The library's ZeroPadding  *)
(* strips zeros off the end of that last block, which holds nothing but    *)
(* noise.                                                                  *)
(*                                                                         *)
(* Abstracted: the cipher.  What it makes of the bytes is any string.      *)
(***************************************************************************)
EXTENDS Integers, Sequences

CONSTANTS
    Block,        \* bytes of a block, 16 in the code
    Bytes,        \* the values of a byte, 0 among them
    MaxLen        \* bound: the length of a packet

ASSUME DecryptAssumption ==
    /\ Block \in Nat \ {0}
    /\ 0 \in Bytes
    /\ MaxLen \in Nat

VARIABLES
    packet,       \* the payload of the RTP packet
    decrypted,    \* what the cipher makes of it, zeros appended
    result,       \* the Vec of that name
    pc            \* the step, or how the arm went on

decryptVars == <<packet, decrypted, result, pc>>

Strings(n) == [1 .. n -> Bytes]

len(p)    == Len(p)
aeslen(p) == len(p) - (len(p) % Block)
be(p)     == Block * (len(p) \div Block) + Block

DecryptInit ==
    /\ \E n \in 0 .. MaxLen : packet \in Strings(n)
    /\ decrypted \in Strings(be(packet))
    /\ result = <<>>
    /\ pc = "decrypt"

\* ZeroPadding::unpad: zeros are stripped off the last block.
Unpad(s, from) ==
    SubSeq(s, 1, CHOOSE n \in from .. Len(s) :
                    /\ \A i \in n + 1 .. Len(s) : s[i] = 0
                    /\ n = from \/ s[n] # 0)

\* decrypt_padded_vec_mut
DecryptAllZeros ==     \* mutant: zeros are stripped beyond the last block
    /\ pc = "decrypt"
    /\ result' = Unpad(decrypted, 0)
    /\ pc' = "copy"
    /\ UNCHANGED <<packet, decrypted>>

DecryptPadded ==
    /\ pc = "decrypt"
    /\ result' = Unpad(decrypted, Len(decrypted) - Block)
    /\ pc' = "copy"
    /\ UNCHANGED <<packet, decrypted>>

\* result[aeslen..len].copy_from_slice(..)
CopyOneShort ==     \* mutant: the first byte of the rest is left out
    /\ pc = "copy"
    /\ len(packet) <= Len(result)
    /\ result' = [i \in DOMAIN result |->
                    IF aeslen(packet) + 1 < i /\ i <= len(packet) THEN packet[i] ELSE result[i]]
    /\ pc' = "done"
    /\ UNCHANGED <<packet, decrypted>>

CopyRest ==
    /\ pc = "copy"
    /\ len(packet) <= Len(result)
    /\ result' = [i \in DOMAIN result |->
                    IF aeslen(packet) < i /\ i <= len(packet) THEN packet[i] ELSE result[i]]
    /\ pc' = "done"
    /\ UNCHANGED <<packet, decrypted>>

\* The range lies outside result: the slice panics.
CopyPanics ==
    /\ pc = "copy"
    /\ len(packet) > Len(result)
    /\ pc' = "panicked"
    /\ UNCHANGED <<packet, decrypted, result>>

DecryptNext == DecryptPadded \/ CopyRest \/ CopyPanics

-----------------------------------------------------------------------------
\* The decoder is given the whole blocks decrypted and the rest as it was sent,
\* followed by at most a block of noise, whatever was stripped
\* (mod.rs:318-322).
DecodesWhatWasSent ==
    pc = "done" =>
        /\ \A i \in 1 .. len(packet) :
              result[i] = IF i <= aeslen(packet) THEN decrypted[i] ELSE packet[i]
        /\ Len(result) - len(packet) \in 0 .. Block

\* The arm panics on no other packets than those whose last block decrypts to
\* zeros from the last byte sent on; it never does on a packet of whole blocks
\* (mod.rs:322).
PanicsOnlyOnZeros ==
    pc = "panicked" =>
        /\ len(packet) > aeslen(packet)
        /\ \A i \in len(packet) .. be(packet) : decrypted[i] = 0
=============================================================================
