------------------------------- MODULE MCTarget -------------------------------
(***************************************************************************)
(* Target with two pins, two callbacks, the modes that differ in what they *)
(* write, and clocks from every branch of Set_Clock_Delay.  UINT32 is 2^30 *)
(* because TLC's integers end at 2^31.                                     *)
(***************************************************************************)
EXTENDS Target

MCClocks ==
    {0, 1, 2, 3, 1000, 4578, 300007} \union {i * 166000 : i \in 1 .. 100}
        \union {16666666, 150000000, 200000000, 600000000}
=============================================================================
