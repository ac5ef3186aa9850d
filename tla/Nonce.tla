------------------------------- MODULE Nonce -------------------------------
(***************************************************************************)
(* How a node recognises a packet it has handled: RawPacket.newNonce takes *)
(* the clock, in milliseconds, and RawPacket.hashCode hashes the bytes of  *)
(* the nonce and of the source address.                                    *)
(*                                                                         *)
(* ByteBuffer.hashCode starts from its last byte and multiplies by 31 at   *)
(* every step towards the first.  The bytes are signed.  Between packets   *)
(* of one source only the nonce differs, and what it adds to the hash is   *)
(* small enough never to overflow: two of its packets have one hash        *)
(* exactly if their nonces have one NonceHash.                             *)
(***************************************************************************)
EXTENDS Integers

\* Of the bytes of a nonce, the lowest first.
Weights == <<1, 256, 65536, 16777216>>

\* Byte k of a nonce, 0 for the lowest, as a Java byte.
ByteOf(nonce, k) ==
    LET unsigned == (nonce \div Weights[k + 1]) % 256
    IN  IF unsigned < 128 THEN unsigned ELSE unsigned - 256

\* Seeded fault: a buffer in the other byte order.
FaultyNonceHash(nonce) ==
    ByteOf(nonce, 0) + 31 * ByteOf(nonce, 1)
      + 961 * ByteOf(nonce, 2) + 29791 * ByteOf(nonce, 3)

\* What the nonce, written with its highest byte first, adds to the hash.
NonceHash(nonce) ==
    ByteOf(nonce, 3) + 31 * ByteOf(nonce, 2)
      + 961 * ByteOf(nonce, 1) + 29791 * ByteOf(nonce, 0)
=============================================================================
