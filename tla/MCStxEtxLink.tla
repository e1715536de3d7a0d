---------------------------- MODULE MCStxEtxLink ----------------------------
(* Instances of StxEtxLink for TLC. *)
EXTENDS StxEtxLink

MCByte == 0..3

(* A weighted sum and a length, in place of crc16. *)
MCChecksum(s) ==
    << (FoldLeftDomain(LAMBDA sum, i : sum + i * s[i], 1, s)) % 4, (Len(s) + 3) % 4 >>

(* Empty, the framing bytes as data, and a packet the receiver cannot hold.   *)
MCPayloads == {<<>>, <<1, 2>>, <<3, 1>>, <<3, 1, 0>>}

(* What the theorem on ImplementsChannel asks of them.                        *)
ASSUME TailsAssumption == TailsFail
=============================================================================
