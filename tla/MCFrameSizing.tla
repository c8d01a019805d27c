-------------------------- MODULE MCFrameSizing --------------------------
(***************************************************************************)
(* FrameSizing with the constants of the code, for TLC.                    *)
(***************************************************************************)
EXTENDS FrameSizing

\* No cipher: version, chain length, the crc32 step; the checksum.
\* AES-256-GCM: the same with the longer id; version, nonce and tag.
MCSeals == {[chain |-> 9, growth |-> 4, keyed |-> FALSE],
            [chain |-> 14, growth |-> 29, keyed |-> TRUE]}

\* Too short for anything, short, and every length across several markers of a
\* heavy frame that has room for a secret.
MCSlots == {7, 8, 150} \cup 620..760 \cup {1200}

\* Covers around the one whose envelope outgrows the length field.
MCLongSlots == 65580..65640

MCAround == {-1, 0, 1, 20}
===========================================================================
