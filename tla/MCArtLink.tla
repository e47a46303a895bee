----------------------------- MODULE MCArtLink -----------------------------
(* Field layout for the run of ArtLink. *)
EXTENDS ArtLink

(* A short text of two fields; the code's has four, 4, 11, 16, 23. *)
ShortFields == <<2, 3>>
(* send_frame rests before the first character and before ']'. *)
CodeRests == {1, SendLength + 1}
=============================================================================
