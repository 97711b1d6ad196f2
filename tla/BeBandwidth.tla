---------------------------- MODULE BeBandwidth ----------------------------
(***************************************************************************)
(* The arithmetic of network_monitor (monitor.c): the bandwidth left to    *)
(* the secondary tasks, from the bandwidth the primary task reports.  The  *)
(* unit is that of the report (a megabyte per second), so that the factor  *)
(* 1000000 disappears.                                                     *)
(***************************************************************************)
EXTENDS Integers

CONSTANTS
  TOTAL_BW,   \* the bandwidth of the link
  WORD32,     \* 2^32, the size of uint32_t
  WORD        \* the size of uint64_t, in the unit

ASSUME BandwidthAssumption ==
  /\ TOTAL_BW \in Nat \ {0} /\ WORD \in Nat /\ WORD32 \in Nat \ {0}
  /\ TOTAL_BW < WORD

\* get_bw returns the low word of the report.
get_bw(bandwidth) == bandwidth % WORD32

\* MAX(TOTAL_BW * buffer, usage * 0.1), in twentieths.
Reserve(usage) == IF 5 * TOTAL_BW > 2 * usage THEN 5 * TOTAL_BW ELSE 2 * usage

\* be_bw.  TOTAL_BW - usage is unsigned and wraps; the rest is computed as a
\* double.  Converting a negative one to uint64_t is undefined: the code that
\* compilers emit wraps or saturates.
BeBw(usage) ==
  LET left == 20 * ((TOTAL_BW - usage) % WORD) - Reserve(usage) IN
  IF left >= 0 THEN {left \div 20}
  ELSE {(-((-left) \div 20)) % WORD, WORD - 1}
=============================================================================
