----------------------------- MODULE MCSwjClock -----------------------------
EXTENDS SwjClock

\* TLC's integers have 32 bits, one of them the sign.
MCUint32 == 2^30

Hz == 1
kHz == 1000
MHz == 1000000

\* From 1 Hz to the fastest clock whose half period is longer than what the fix
\* and the port write take, and clocks that need no delay.
SafeClocks ==
    {0, 1 * Hz, 2 * Hz, 3 * Hz, 1 * kHz, 4578 * Hz, 300 * kHz + 7 * Hz}
        \union {k * 166 * kHz : k \in 1 .. 100}
        \union {16666666 * Hz, 150 * MHz, 200 * MHz, 600 * MHz}

\* Clocks between those two ranges, whose half period is shorter.
FasterClocks == SafeClocks \union {k * MHz : k \in 18 .. 149}
=============================================================================
