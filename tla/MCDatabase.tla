----------------------------- MODULE MCDatabase ------------------------------
(* A thing with one string.  In an int16_t of three bits, the three powers *)
(* give differences that fit and differences that do not.                  *)
EXTENDS Database

MCReports == {<<-45>>, <<4>>, <<30>>}
=============================================================================
