---------------------------- MODULE VgaRegisters ----------------------------
(***************************************************************************)
(* What the functions of src/vgaio.c do, whatever was done before: the     *)
(* adapter is a file of registers, a screen that is on or off and a        *)
(* palette.  There are no ports, no selected indices and no flip-flop      *)
(* here.  In monochrome nothing is promised of the attribute registers and *)
(* the screen, since every function resets their flip-flop at the colour   *)
(* address; and a mode's CRTC values arrive only if the adapter was        *)
(* already at that mode's address.                                         *)
(***************************************************************************)
EXTENDS VgaTables, TLC

CONSTANTS DacSize, PaletteSize

VARIABLES reg,      \* actl, sequ, grdc, crtc, misc, feature, pelMask, dac, screen
          saved,    \* the registers vgahw_save_state took, or <<>>
          savedDac, \* those vgahw_save_dac_state took, or <<>>
          last      \* the call made: its function, arguments and result

Field(x, k, n) == (x \div 2^k) % 2^n
SetBits(x, k, n, b) == x - 2^k * Field(x, k, n) + 2^k * b

Colour(r) == r.misc % 2 = 1

Regs(f, from) == [i \in 0..Len(f) - 1 |-> f[i + 1]] @@ from
InMode(r, m) ==
    LET p == video_param_table[vga_modes[find_vga_entry(m)].vparam]
    IN  [r EXCEPT !.actl = Regs(p.actl_regs, 20 :> 0),
                  !.sequ = Regs(<<3>> \o p.sequ_regs, <<>>),
                  !.grdc = Regs(p.grdc_regs, <<>>),
                  !.crtc = IF Colour(r) <=> p.miscreg % 2 = 1
                           THEN Regs(p.crtc_regs, <<>>) ELSE @,
                  !.misc = p.miscreg, !.screen = TRUE]
Loaded(d, data, start) ==
    [i \in start..start + (Len(data) \div 3) - 1 |->
        [c \in 0..2 |-> data[3 * (i - start) + c + 1]]] @@ d
Palette == SubSeq(palettes(vga_modes[find_vga_entry(3)].dac), 1, 3 * PaletteSize)

On(r) == [r EXCEPT !.screen = TRUE]
Actl(r, from) == [On(r) EXCEPT !.actl = from @@ @]
\* The adapter after a call.
After(r, f, a) ==
    CASE f = "init" ->
           [InMode([r EXCEPT !.misc = 195], 3) EXCEPT !.dac = Loaded(@, Palette, 0)]
      [] f = "set_mode" -> InMode(r, a)
      [] f = "screen_disable" -> [r EXCEPT !.screen = FALSE]
      [] f \in {"screen_enable", "get_overscan_border_color", "get_single_palette_reg",
                "get_all_palette_reg", "read_video_dac_state"} -> On(r)
      [] f = "set_border_color" ->
           Actl(r, [i \in 0..3 |->
               IF i = 0 THEN (a % 16) + (IF Field(a, 3, 1) = 1 THEN 8 ELSE 0)
               ELSE SetBits(r.actl[i], 4, 1, Field(a, 4, 1))])
      [] f = "set_overscan_border_color" -> Actl(r, 17 :> a)
      [] f = "set_palette" ->
           Actl(r, [i \in 1..3 |-> SetBits(r.actl[i], 0, 1, a % 2)])
      [] f = "set_single_palette_reg" -> Actl(r, a[1] :> a[2])
      [] f = "set_all_palette_reg" ->
           Actl(r, [i \in (0..15) \union {17} |-> a[IF i = 17 THEN 17 ELSE i + 1]])
      [] f = "toggle_intensity" ->
           Actl(r, 16 :> SetBits(r.actl[16], 3, 1, a % 2))
      [] f = "select_video_dac_color_page" /\ a[1] = 0 ->
           Actl(r, 16 :> SetBits(r.actl[16], 7, 1, a[2] % 2))
      [] f = "select_video_dac_color_page" /\ a[1] = 1 ->
           Actl(r, 20 :> IF Field(r.actl[16], 7, 1) = 1 THEN a[2] % 16
                                                        ELSE 4 * (a[2] % 4))
      [] f = "set_dac_regs" -> [r EXCEPT !.dac = Loaded(@, a[1], a[2])]
      [] f = "set_pel_mask" -> [r EXCEPT !.pelMask = a]
      [] f = "set_text_block_specifier" -> [r EXCEPT !.sequ[3] = a]
      [] f = "get_font_access" ->
           [r EXCEPT !.sequ = (0 :> 3 @@ 2 :> 4 @@ 4 :> 7) @@ @,
                     !.grdc = (4 :> 2 @@ 5 :> 0 @@ 6 :> 4) @@ @]
      [] f = "release_font_access" ->
           [r EXCEPT !.sequ = (0 :> 3 @@ 2 :> 3 @@ 4 :> 3) @@ @,
                     !.grdc = (4 :> 0 @@ 5 :> 16 @@ 6 :> IF Colour(r) THEN 14 ELSE 10) @@ @]
      [] f = "enable_video_addressing" ->
           [r EXCEPT !.misc = SetBits(@, 1, 1, 1 - (a % 2))]
      \* The colour page and the CRTC's registers stay.
      [] f = "restore_state" ->
           [saved EXCEPT !.actl = @ @@ r.actl] @@ [r EXCEPT !.misc = SetBits(@, 0, 1, 0)]
      [] f = "restore_dac_state" ->
           [r EXCEPT !.pelMask = savedDac.pelMask, !.dac = savedDac.dac]
      \* The cursor's shape and place, the page, the scan lines: nothing.
      [] OTHER -> r

\* What it returns.
Result(r, f, a) ==
    CASE f = "get_overscan_border_color" -> r.actl[17]
      [] f = "get_single_palette_reg" -> r.actl[a]
      [] f = "get_all_palette_reg" ->
           [i \in 1..17 |-> r.actl[IF i = 17 THEN 17 ELSE i - 1]]
      [] f = "read_video_dac_state" ->
           LET paged == Field(r.actl[16], 7, 1)
           IN  <<paged, (r.actl[20] % 16) \div (IF paged = 1 THEN 1 ELSE 4)>>
      [] f = "get_dac_regs" ->
           [i \in 1..3 * a[2] |-> r.dac[a[1] + ((i - 1) \div 3)][(i - 1) % 3]]
      [] f = "get_pel_mask" -> r.pelMask
      [] OTHER -> 0

\* What the two structures hold.
State(r) == [actl |-> [i \in 0..19 |-> r.actl[i]], sequ |-> r.sequ, grdc |-> r.grdc,
             screen |-> r.screen]
DacState(r) == [pelMask |-> r.pelMask, dac |-> r.dac]

\* The functions that use the attribute controller, and what is lost when they
\* do so in monochrome.
AttributeUsers ==
    {"screen_disable", "screen_enable", "set_border_color", "set_overscan_border_color",
     "set_palette", "set_single_palette_reg", "set_all_palette_reg", "toggle_intensity",
     "select_video_dac_color_page", "get_overscan_border_color", "read_video_dac_state",
     "get_single_palette_reg", "get_all_palette_reg", "save_state", "restore_state",
     "set_mode"}
Confused(f) == f \in AttributeUsers /\ ~Colour(reg)
Agree(r, s, f) ==
    /\ DOMAIN r = DOMAIN s
    /\ \A k \in DOMAIN s : r[k] = s[k] \/ (k \in {"actl", "screen"} /\ Confused(f))

Init == saved = <<>> /\ savedDac = <<>> /\ last = <<>>
Call ==
    /\ last' # <<>>
    /\ Agree(reg', After(reg, last'[1], last'[2]), last'[1])
    /\ \/ last'[3] = Result(reg, last'[1], last'[2])
       \/ last'[1] = "get_vde" \/ Confused(last'[1])
    /\ IF last'[1] = "save_state" THEN Agree(saved', State(reg), "save_state")
                                  ELSE saved' = saved
    /\ savedDac' = IF last'[1] = "save_dac_state" THEN DacState(reg) ELSE savedDac
Spec == Init /\ [][Call]_<<reg, saved, savedDac, last>>
==============================================================================
