-------------------------------- MODULE Screen --------------------------------
(***************************************************************************)
(* Which part of the web client a behaviour is about.  The pages and dialogs   *)
(* share nothing but the server, so a behaviour shows one of them; its state  *)
(* is kept in as many of the cells below as it has variables, and the others   *)
(* stay unused.                                                            *)
(***************************************************************************)
EXTENDS Naturals

VARIABLES
  screen,
  s1, s2, s3, s4, s5, s6, s7, s8, s9, s10, s11, s12,
  s13, s14, s15, s16, s17, s18, s19, s20, s21, s22, s23, s24

screenVars ==
  <<screen, s1, s2, s3, s4, s5, s6, s7, s8, s9, s10, s11, s12,
    s13, s14, s15, s16, s17, s18, s19, s20, s21, s22, s23, s24>>

\* The cells from the k-th on hold nothing,
Unused(k) ==
  /\ (k <= 1 => s1 = "unused") /\ (k <= 2 => s2 = "unused") /\ (k <= 3 => s3 = "unused")
  /\ (k <= 4 => s4 = "unused") /\ (k <= 5 => s5 = "unused") /\ (k <= 6 => s6 = "unused")
  /\ (k <= 7 => s7 = "unused") /\ (k <= 8 => s8 = "unused") /\ (k <= 9 => s9 = "unused")
  /\ (k <= 10 => s10 = "unused") /\ (k <= 11 => s11 = "unused") /\ (k <= 12 => s12 = "unused")
  /\ (k <= 13 => s13 = "unused") /\ (k <= 14 => s14 = "unused") /\ (k <= 15 => s15 = "unused")
  /\ (k <= 16 => s16 = "unused") /\ (k <= 17 => s17 = "unused") /\ (k <= 18 => s18 = "unused")
  /\ (k <= 19 => s19 = "unused") /\ (k <= 20 => s20 = "unused") /\ (k <= 21 => s21 = "unused")
  /\ (k <= 22 => s22 = "unused") /\ (k <= 23 => s23 = "unused") /\ (k <= 24 => s24 = "unused")

\* and stay so, as does the screen.
Stays(k) ==
  /\ UNCHANGED screen
  /\ (k <= 1 => s1' = s1) /\ (k <= 2 => s2' = s2) /\ (k <= 3 => s3' = s3) /\ (k <= 4 => s4' = s4)
  /\ (k <= 5 => s5' = s5) /\ (k <= 6 => s6' = s6) /\ (k <= 7 => s7' = s7) /\ (k <= 8 => s8' = s8)
  /\ (k <= 9 => s9' = s9) /\ (k <= 10 => s10' = s10) /\ (k <= 11 => s11' = s11)
  /\ (k <= 12 => s12' = s12) /\ (k <= 13 => s13' = s13) /\ (k <= 14 => s14' = s14)
  /\ (k <= 15 => s15' = s15) /\ (k <= 16 => s16' = s16) /\ (k <= 17 => s17' = s17)
  /\ (k <= 18 => s18' = s18) /\ (k <= 19 => s19' = s19) /\ (k <= 20 => s20' = s20)
  /\ (k <= 21 => s21' = s21) /\ (k <= 22 => s22' = s22) /\ (k <= 23 => s23' = s23)
  /\ (k <= 24 => s24' = s24)
=============================================================================
