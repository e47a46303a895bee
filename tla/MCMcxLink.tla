----------------------------- MODULE MCMcxLink -----------------------------
(* Field layouts for the runs of McxLink. *)
EXTENDS McxLink

(* "s:%d,xf:%u,yf:%u,p:%d,l:%d\n" with the widths 1, 4, 4, 6, 4. *)
CodeFields == <<3, 11, 19, 28, 35>>
(* A short frame of two fields, for the run with noise. *)
ShortFields == <<2, 4>>
=============================================================================
