------------------------------- MODULE MainLoop -------------------------------
(***************************************************************************)
(* A pass of the main loop (main.c:63-98): a search, if there is an image  *)
(* and the car follows the line, and then the keys.  The two meet in one   *)
(* variable: the last row of the menu's table is a pointer to              *)
(* param_enable_loop (menu.c:82-88), which the search reads.               *)
(***************************************************************************)
EXTENDS KeyMenu, TrackElement

picture == <<element_type, el, prev_el_normal, section, zebra, road_first, stop0, stop,
             segs, convex, even, allowed>>
search == <<picture, param_enable_loop>>

SwitchOf(table) == table[param_count] = 1

MainInit == Init /\ SearchInit

(* The interrupt and the fingers come at any time. *)
Interrupt ==
  /\ MoveFinger \/ key_scanner
  /\ UNCHANGED search

(* process_image: from the start of a pass until search has returned, if   *)
(* it returns. *)
ProcessImage ==
  /\ pc = "page"
  /\ StartSearch \/ SearchStep
  /\ UNCHANGED vars

HandleKeys ==
  /\ section = "idle"
  /\ MainStep
  /\ param_enable_loop' = SwitchOf(param')
  /\ UNCHANGED picture

MainNext == Interrupt \/ ProcessImage \/ HandleKeys

MainSpec == MainInit /\ [][MainNext]_<<vars, search>>

-----------------------------------------------------------------------------
(* The menu shows, in its last row, what the search goes by. *)
SwitchShown == param_enable_loop = SwitchOf(param)
=============================================================================
