----------------------------- MODULE JtagMonitor -----------------------------
(* jtagmon of the cable driver                                                *)
(* (drivers/linux/Xilinx_Platform_Cable/usb-driver/jtagmon.c): the monitor     *)
(* follows the state of the JTAG TAP controller through the pins that the      *)
(* caller drives.  What the TAP is told is seen on the rising edges of TCK.    *)
EXTENDS Naturals

VARIABLES
    state,      \* the monitored state of the TAP
    last_tck,   \* TCK at the last call
    ones        \* history: rising edges with TMS set since the last with TMS clear,
                \* counted up to five

monVars == <<state, last_tck, ones>>

tap_states ==
    {"TEST_LOGIC_RESET", "RUN_TEST_IDLE",
     "SELECT_DR", "CAPTURE_DR", "SHIFT_DR", "EXIT1_DR", "PAUSE_DR", "EXIT2_DR", "UPDATE_DR",
     "SELECT_IR", "CAPTURE_IR", "SHIFT_IR", "EXIT1_IR", "PAUSE_IR", "EXIT2_IR", "UPDATE_IR"}

\* Defective variant: Select-IR goes on to Exit1-IR.
TmsHighNoReset(s) ==
    CASE s = "TEST_LOGIC_RESET"                           -> "TEST_LOGIC_RESET"
      [] s \in {"RUN_TEST_IDLE", "UPDATE_DR", "UPDATE_IR"} -> "SELECT_DR"
      [] s = "SELECT_DR"                                  -> "SELECT_IR"
      [] s \in {"CAPTURE_DR", "SHIFT_DR"}                 -> "EXIT1_DR"
      [] s \in {"EXIT1_DR", "EXIT2_DR"}                   -> "UPDATE_DR"
      [] s = "PAUSE_DR"                                   -> "EXIT2_DR"
      [] s \in {"CAPTURE_IR", "SHIFT_IR", "SELECT_IR"}    -> "EXIT1_IR"
      [] s \in {"EXIT1_IR", "EXIT2_IR"}                   -> "UPDATE_IR"
      [] s = "PAUSE_IR"                                   -> "EXIT2_IR"

\* The state after a rising edge with TMS set ...
TmsHigh(s) ==
    CASE s \in {"TEST_LOGIC_RESET", "SELECT_IR"}          -> "TEST_LOGIC_RESET"
      [] s \in {"RUN_TEST_IDLE", "UPDATE_DR", "UPDATE_IR"} -> "SELECT_DR"
      [] s = "SELECT_DR"                                  -> "SELECT_IR"
      [] s \in {"CAPTURE_DR", "SHIFT_DR"}                 -> "EXIT1_DR"
      [] s \in {"EXIT1_DR", "EXIT2_DR"}                   -> "UPDATE_DR"
      [] s = "PAUSE_DR"                                   -> "EXIT2_DR"
      [] s \in {"CAPTURE_IR", "SHIFT_IR"}                 -> "EXIT1_IR"
      [] s \in {"EXIT1_IR", "EXIT2_IR"}                   -> "UPDATE_IR"
      [] s = "PAUSE_IR"                                   -> "EXIT2_IR"

\* ... and with TMS clear.
TmsLow(s) ==
    CASE s \in {"TEST_LOGIC_RESET", "RUN_TEST_IDLE", "UPDATE_DR", "UPDATE_IR"} -> "RUN_TEST_IDLE"
      [] s = "SELECT_DR"                              -> "CAPTURE_DR"
      [] s \in {"CAPTURE_DR", "SHIFT_DR", "EXIT2_DR"} -> "SHIFT_DR"
      [] s \in {"EXIT1_DR", "PAUSE_DR"}               -> "PAUSE_DR"
      [] s = "SELECT_IR"                              -> "CAPTURE_IR"
      [] s \in {"CAPTURE_IR", "SHIFT_IR", "EXIT2_IR"} -> "SHIFT_IR"
      [] s \in {"EXIT1_IR", "PAUSE_IR"}               -> "PAUSE_IR"

MonitorInit ==
    /\ state = "TEST_LOGIC_RESET"
    /\ last_tck = TRUE
    /\ ones = 0

jtagmon(tck, tms) ==
    /\ last_tck' = tck
    /\ IF tck /\ ~last_tck
       THEN /\ state' = IF tms THEN TmsHigh(state) ELSE TmsLow(state)
            /\ ones' = IF ~tms THEN 0 ELSE IF ones < 5 THEN ones + 1 ELSE 5
       ELSE UNCHANGED <<state, ones>>

MonitorNext == \E tck, tms \in BOOLEAN : jtagmon(tck, tms)

MonitorSpec == MonitorInit /\ [][MonitorNext]_monVars

-----------------------------------------------------------------------------
MonitorTypeOK == state \in tap_states /\ last_tck \in BOOLEAN /\ ones \in 0 .. 5

\* A tool that lost track of the TAP resets it with five clocks while TMS is set;
\* whatever it did before, the monitor is then in Test-Logic-Reset, too.
ResetInFive == ones = 5 => state = "TEST_LOGIC_RESET"

-----------------------------------------------------------------------------
(* The invariant of the proof *)

\* Edges with TMS set that lead from a state to the reset.
ToReset(s) ==
    CASE s = "TEST_LOGIC_RESET"                                       -> 0
      [] s = "SELECT_IR"                                              -> 1
      [] s = "SELECT_DR"                                              -> 2
      [] s \in {"RUN_TEST_IDLE", "UPDATE_DR", "UPDATE_IR"}            -> 3
      [] s \in {"EXIT1_DR", "EXIT2_DR", "EXIT1_IR", "EXIT2_IR"}       -> 4
      [] OTHER                                                        -> 5

\* Every edge counted has brought the reset one edge nearer.
ResetNears ==
    /\ MonitorTypeOK
    /\ state # "TEST_LOGIC_RESET" => ToReset(state) + ones <= 5
==============================================================================
