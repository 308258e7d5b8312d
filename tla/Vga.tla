--------------------------------- MODULE Vga ---------------------------------
(***************************************************************************)
(* The VGA functions of src/vgaio.c over the adapter's ports.  vgahw_init  *)
(* runs once; then a caller makes any MaxCalls calls.  Every function runs *)
(* to completion: nothing else in the firmware touches the adapter.        *)
(***************************************************************************)
EXTENDS VgaAdapter

CONSTANTS Modes,        \* the modes a caller sets
          Values,       \* the bytes a caller passes
          PaletteSize,  \* dacsize / 3 of the mode of vgahw_init
          Glyphs,       \* the characters of the font
          MaxCalls      \* bound on the calls after vgahw_init

\* A caller sets modes that vga_modes lists.
ASSUME VgaAssumption ==
    /\ \A m \in Modes : find_vga_entry(m) # 0
    /\ Glyphs \in Nat /\ PaletteSize \in Nat /\ DacSize \in Nat

VARIABLES vga,    \* the adapter
          info,   \* struct saveVideoHardware and the mode it holds, or <<>>
          dinfo,  \* struct saveDACcolors, or <<>>
          mode,   \* the mode set last, and whether its font memory is open
          last, calls
vars == <<vga, info, dinfo, mode, last, calls>>

SetFontOpen(b) == [mode EXCEPT !.fontOpen = b]

(* Sequences of accesses. *)
Outb(v, port, b) == Out(v, port, b)
Inb(v, port) == In(v, port)
Outw(v, port, index, b) == Outb(Outb(v, port, index), port + 1, b)
Peek(v, port, i) == Inb(Outb(v, port, i), port + 1)
\* Op(v), for which TLC evaluates v first.
With(v, Op(_)) == [x \in {v} |-> Op(x)][v]
\* Body for 0, 1 .. n - 1.
For(v, n, Body(_, _)) ==
    LET From(x) ==
          LET w[k \in 0..n] == IF k = 0 THEN x
                               ELSE With(w[k - 1], LAMBDA y : Body(y, k - 1))
          IN  w[n]
    IN  With(v, From)
\* f[i] to register i, for n registers from the first.
WriteAll(v, port, first, n, f) ==
    For(v, n, LAMBDA w, k : Outw(w, port, first + k, f[first + k]))
ReadAll(v, port, n) == [i \in 0..n - 1 |-> Peek(v, port, i)]
ActlReset(v) == AfterIn(v, VGAREG_ACTL_RESET)
ActlIndex(v, i) == Outb(v, VGAREG_ACTL_ADDRESS, i)
ActlData(v, b) == Outb(v, VGAREG_ACTL_WRITE_DATA, b)
ActlRead(v) == Inb(v, VGAREG_ACTL_READ_DATA)
ActlSelect(v, i) == ActlIndex(ActlReset(v), i)
ActlPut(v, i, b) == ActlData(ActlIndex(v, i), b)
\* Registers 0 .. n - 1; screen is the bit of the index that keeps it on.
ActlWriteAll(v, screen, n, f) ==
    For(v, n, LAMBDA w, k : ActlPut(w, k + screen, f[k]))
\* The adapter after each of the indices in turn is selected.
ActlScan(v, indices) ==
    LET w[k \in 0..Len(indices)] == IF k = 0 THEN v ELSE ActlSelect(w[k - 1], indices[k])
    IN  w

(* Attribute control. *)
vgahw_screen_disable(v) == ActlSelect(v, 0)
vgahw_screen_enable(v) == ActlSelect(v, 32)
vgahw_set_border_color(v, color) ==
    LET low == (color % 16) + 8 * Bit(color, 3)
        EachColor(w, i) == LET x == ActlIndex(w, i)
                           IN  ActlData(x, PutBit(ActlRead(x), 4, Bit(color, 4)))
        first == ActlData(ActlSelect(v, 0), low)
    IN  ActlIndex(EachColor(EachColor(EachColor(first, 1), 2), 3), 32)
vgahw_set_single_palette_reg(v, i, b) == ActlIndex(ActlData(ActlSelect(v, i), b), 32)
vgahw_set_overscan_border_color(v, color) == vgahw_set_single_palette_reg(v, 17, color)
\* A bug: the flip-flop is not reset before the screen is turned on.
vgahw_get_single_palette_regOnce(v, i) ==
    LET w == ActlSelect(v, i)
    IN  [result |-> ActlRead(w), vga |-> ActlIndex(w, 32)]
vgahw_get_single_palette_reg(v, i) ==
    LET w == ActlSelect(v, i)
    IN  [result |-> ActlRead(w), vga |-> ActlSelect(w, 32)]
vgahw_get_overscan_border_color(v) == vgahw_get_single_palette_reg(v, 17)
vgahw_set_palette(v, palid) ==
    LET EachColor(w, i) == LET x == ActlIndex(w, i)
                           IN  ActlData(x, PutBit(ActlRead(x), 0, palid % 2))
    IN  ActlIndex(EachColor(EachColor(EachColor(ActlReset(v), 1), 2), 3), 32)
vgahw_set_all_palette_reg(v, data) ==
    LET w == ActlWriteAll(ActlReset(v), 0, 16, [k \in 0..15 |-> data[k + 1]])
    IN  ActlIndex(ActlPut(w, 17, data[17]), 32)
vgahw_get_all_palette_reg(v) ==
    LET w == ActlScan(v, [k \in 1..17 |-> IF k = 17 THEN 17 ELSE k - 1])
    IN  [vga |-> ActlSelect(w[17], 32), result |-> [k \in 1..17 |-> ActlRead(w[k])]]
vgahw_toggle_intensity(v, flag) ==
    LET w == ActlSelect(v, 16)
    IN  ActlIndex(ActlData(w, PutBit(ActlRead(w), 3, flag % 2)), 32)
vgahw_select_video_dac_color_page(v, flag, data) ==
    LET w == ActlSelect(v, 16)
        val == ActlRead(w)
        page == (IF Bit(val, 7) = 0 THEN 4 * data ELSE data) % 16
    IN  IF flag % 2 = 0
        THEN ActlIndex(ActlData(w, PutBit(val, 7, data % 2)), 32)
        ELSE ActlIndex(ActlData(ActlSelect(w, 20), page), 32)
vgahw_read_video_dac_state(v) ==
    LET w1 == ActlSelect(v, 16)
        pmode == ActlRead(w1) \div 128
        w2 == ActlSelect(w1, 20)
        page == ActlRead(w2) % 16
    IN  [vga |-> ActlSelect(w2, 32),
         result |-> <<pmode, IF pmode % 2 = 0 THEN page \div 4 ELSE page>>]

(* DAC control. *)
vgahw_set_dac_regs(v, data, start, count) ==
    For(Outb(v, VGAREG_DAC_WRITE_ADDRESS, start), 3 * count,
        LAMBDA w, k : Outb(w, VGAREG_DAC_DATA, data[k + 1]))
vgahw_get_dac_regs(v, start, count) ==
    LET w[k \in 0..3 * count] == IF k = 0 THEN Outb(v, VGAREG_DAC_READ_ADDRESS, start)
                                 ELSE AfterIn(w[k - 1], VGAREG_DAC_DATA)
    IN  [vga |-> w[3 * count],
         result |-> [k \in 1..3 * count |-> Inb(w[k - 1], VGAREG_DAC_DATA)]]
vgahw_set_pel_mask(v, b) == Outb(v, VGAREG_PEL_MASK, b)
vgahw_get_pel_mask(v) == Inb(v, VGAREG_PEL_MASK)
vgahw_save_dac_state(v) ==
    LET dac == vgahw_get_dac_regs(v, 0, DacSize)
    IN  [vga |-> dac.vga,
         info |-> [rwmode |-> Inb(v, VGAREG_DAC_STATE),
                   peladdr |-> Inb(v, VGAREG_DAC_WRITE_ADDRESS),
                   pelmask |-> Inb(v, VGAREG_PEL_MASK),
                   dac |-> dac.result, color_select |-> 0]]
vgahw_restore_dac_state(v, i) ==
    Outb(vgahw_set_dac_regs(Outb(v, VGAREG_PEL_MASK, i.pelmask), i.dac, 0, DacSize),
        VGAREG_DAC_WRITE_ADDRESS, i.peladdr)

(* Memory control. *)
vgahw_sequ_write(v, index, b) == Outw(v, VGAREG_SEQU_ADDRESS, index, b)
vgahw_grdc_write(v, index, b) == Outw(v, VGAREG_GRDC_ADDRESS, index, b)
vgahw_set_text_block_specifier(v, spec) == Outw(v, VGAREG_SEQU_ADDRESS, 3, spec)
FontSequ(v, mask, memory) ==
    LET w == vgahw_sequ_write(vgahw_sequ_write(v, 0, 1), 2, mask)
    IN  vgahw_sequ_write(vgahw_sequ_write(w, 4, memory), 0, 3)
get_font_access(v) ==
    LET w == vgahw_grdc_write(FontSequ(v, 4, 7), 4, 2)
    IN  vgahw_grdc_write(vgahw_grdc_write(w, 5, 0), 6, 4)
FontRelease(w, map) ==
    vgahw_grdc_write(vgahw_grdc_write(vgahw_grdc_write(w, 6, map), 4, 0), 5, 16)
\* A bug: colour and monochrome are swapped.
release_font_accessSwapped(v) ==
    LET w == FontSequ(v, 3, 3)
    IN  FontRelease(w, IF Inb(w, VGAREG_READ_MISC_OUTPUT) % 2 = 1 THEN 10 ELSE 14)
release_font_access(v) ==
    LET w == FontSequ(v, 3, 3)
    IN  FontRelease(w, IF Inb(w, VGAREG_READ_MISC_OUTPUT) % 2 = 1 THEN 14 ELSE 10)

(* CRTC registers. *)
\* BDA.crtc_address, of a static structure that nothing stores into.
get_crtc == 0
CrtcPair(v, i, b, c) ==
    Outw(Outw(v, get_crtc, i, b), get_crtc, i + 1, c)
vgahw_set_cursor_shape(v, start, end) == CrtcPair(v, 10, start, end)
vgahw_set_active_page(v, address) == CrtcPair(v, 12, address \div 256, address % 256)
vgahw_set_cursor_pos(v, address) == CrtcPair(v, 14, address \div 256, address % 256)
vgahw_set_scan_lines(v, lines) ==
    Outw(v, get_crtc, 9, 32 * (Peek(v, get_crtc, 9) \div 32) + lines - 1)
vgahw_get_vde(v) ==
    LET w == Outb(v, get_crtc, 18)
        ovl == Peek(w, get_crtc, 7)
    IN  [vga |-> Outb(w, get_crtc, 7),
         result |-> Inb(w, get_crtc + 1) + 256 * Bit(ovl, 1) + 512 * Bit(ovl, 6) + 1]

(* Save, restore and set state. *)
vgahw_save_state(v) ==
    LET ar_index == Inb(ActlReset(v), VGAREG_ACTL_ADDRESS)
        w == ActlScan(v, [k \in 1..20 |-> k - 1 + 32 * Bit(ar_index, 5)])
        grdc == Outb(Outb(ActlReset(w[20]), VGAREG_SEQU_ADDRESS, 0), get_crtc, 24)
    IN  [info |-> [sequ_index |-> Inb(v, VGAREG_SEQU_ADDRESS),
                   crtc_index |-> Inb(v, get_crtc),
                   grdc_index |-> Inb(v, VGAREG_GRDC_ADDRESS),
                   actl_index |-> ar_index,
                   feature |-> Inb(v, VGAREG_READ_FEATURE_CTL),
                   sequ |-> ReadAll(v, VGAREG_SEQU_ADDRESS, 5),
                   crtc |-> ReadAll(v, get_crtc, 25),
                   actl |-> [i \in 0..19 |-> ActlRead(w[i + 1])],
                   grdc |-> ReadAll(v, VGAREG_GRDC_ADDRESS, 9),
                   crtc_addr |-> get_crtc],
         vga |-> Outb(grdc, VGAREG_GRDC_ADDRESS, 8)]
vgahw_restore_state(v, i) ==
    LET sequ == Outw(WriteAll(ActlReset(v), VGAREG_SEQU_ADDRESS, 1, 4, i.sequ),
                     VGAREG_SEQU_ADDRESS, 0, i.sequ[0])
        crtc == WriteAll(WriteAll(Outw(sequ, i.crtc_addr, 17, 0),
                                  i.crtc_addr, 0, 17, i.crtc), i.crtc_addr, 18, 7, i.crtc)
        colour == IF i.crtc_addr = VGAREG_VGA_CRTC_ADDRESS THEN 1 ELSE 0
        misc == Outb(crtc, VGAREG_WRITE_MISC_OUTPUT,
                    PutBit(Inb(crtc, VGAREG_READ_MISC_OUTPUT), 0, colour))
        locked == Outw(misc, i.crtc_addr, 17, i.crtc[17])
        actl == ActlWriteAll(ActlReset(locked), 32 * Bit(i.actl_index, 5), 20, i.actl)
        shown == ActlReset(ActlIndex(actl, i.actl_index))
        grdc == WriteAll(shown, VGAREG_GRDC_ADDRESS, 0, 9, i.grdc)
        indexed == Outb(Outb(grdc, VGAREG_SEQU_ADDRESS, i.sequ_index),
                        i.crtc_addr, i.crtc_index)
    IN  Outb(Outb(indexed, VGAREG_GRDC_ADDRESS, i.grdc_index),
            i.crtc_addr - 4 + 10, i.feature)
\* The table's rows: the n bytes of f as the registers 0 .. n - 1.
FromZero(f, n) == [k \in 0..n - 1 |-> f[k + 1]]
vgahw_set_mode(v, p) ==
    LET actl == ActlWriteAll(ActlReset(v), 0, 20, FromZero(p.actl_regs, 20))
        sequ == WriteAll(Outw(ActlPut(actl, 20, 0), VGAREG_SEQU_ADDRESS, 0, 3),
                         VGAREG_SEQU_ADDRESS, 1, 4, p.sequ_regs)
        grdc == WriteAll(sequ, VGAREG_GRDC_ADDRESS, 0, 9, FromZero(p.grdc_regs, 9))
        crtc_addr == IF p.miscreg % 2 = 1 THEN VGAREG_VGA_CRTC_ADDRESS
                                          ELSE VGAREG_MDA_CRTC_ADDRESS
        crtc == WriteAll(Outw(grdc, crtc_addr, 17, 0), crtc_addr, 0, 25,
                         FromZero(p.crtc_regs, 25))
        misc == Outb(crtc, VGAREG_WRITE_MISC_OUTPUT, p.miscreg)
    IN  ActlReset(ActlIndex(misc, 32))

(* Initialisation. *)
vgahw_enable_video_addressing(v, disable) ==
    LET on == IF disable % 2 = 1 THEN 0 ELSE 1
    IN  Outb(v, VGAREG_WRITE_MISC_OUTPUT, PutBit(Inb(v, VGAREG_READ_MISC_OUTPUT), 1, on))
vgafont16(ch, row) == <<ch, row>>
LoadFont(v) ==
    For(v, 16 * Glyphs, LAMBDA w, k :
        Store(w, (k \div 16) * 32 + (k % 16), vgafont16(k \div 16, k % 16)))
vgahw_init(v) ==
    LET entry == vga_modes[find_vga_entry(3)]
        p == video_param_table[entry.vparam]
        colour == vgahw_sequ_write(
                      Outb(vgahw_sequ_write(v, 0, 1), VGAREG_WRITE_MISC_OUTPUT, 195), 0, 3)
        set == vgahw_sequ_write(vgahw_set_mode(colour, p), 4, 6)
        \* sequ_regs[1] is the register after the one written
        dark == vgahw_sequ_write(set, 1, PutBit(p.sequ_regs[2], 5, 1))
        linear == vgahw_grdc_write(
                      vgahw_grdc_write(dark, 5, PutBit(p.grdc_regs[6], 4, 0)), 6, 5)
        font == LoadFont(vgahw_sequ_write(linear, 2, 4))
        dac == vgahw_set_dac_regs(font, palettes(entry.dac), 0, PaletteSize)
    IN  vgahw_set_mode(vgahw_sequ_write(dac, 4, 2), p)

(* The calls. *)
Call(f, a, v, result) ==
    /\ mode # <<>> /\ calls < MaxCalls
    /\ vga' = v /\ last' = <<f, a, result>> /\ calls' = calls + 1
Set(f, a, v) == Call(f, a, v, 0) /\ UNCHANGED <<info, dinfo, mode>>
Get(f, a, r) == Call(f, a, r.vga, r.result) /\ UNCHANGED <<info, dinfo, mode>>
Row(b) == [i \in 1..17 |-> (b + i) % 64]
Colours(n, b) == [k \in 1..3 * n |-> <<b, k>>]

vgahw_init_call ==
    /\ mode = <<>>
    /\ vga' = vgahw_init(vga) /\ last' = <<"init", 0, 0>>
    /\ mode' = [m |-> 3, fontOpen |-> FALSE]
    /\ UNCHANGED <<info, dinfo, calls>>
AttributeCall ==
    \/ Set("screen_disable", 0, vgahw_screen_disable(vga))
    \/ Set("screen_enable", 0, vgahw_screen_enable(vga))
    \/ Get("get_overscan_border_color", 0, vgahw_get_overscan_border_color(vga))
    \/ Get("get_all_palette_reg", 0, vgahw_get_all_palette_reg(vga))
    \/ Get("read_video_dac_state", 0, vgahw_read_video_dac_state(vga))
    \/ \E i \in {2, 16} :
          Get("get_single_palette_reg", i, vgahw_get_single_palette_reg(vga, i))
    \/ \E b \in Values :
          \/ Set("set_border_color", b, vgahw_set_border_color(vga, b))
          \/ Set("set_overscan_border_color", b, vgahw_set_overscan_border_color(vga, b))
          \/ Set("set_palette", b, vgahw_set_palette(vga, b))
          \/ Set("set_all_palette_reg", Row(b), vgahw_set_all_palette_reg(vga, Row(b)))
          \/ Set("toggle_intensity", b, vgahw_toggle_intensity(vga, b))
          \/ \E flag \in {0, 1} :
                Set("select_video_dac_color_page", <<flag, b>>,
                    vgahw_select_video_dac_color_page(vga, flag, b))
          \/ \E i \in {2, 16} :
                Set("set_single_palette_reg", <<i, b>>,
                    vgahw_set_single_palette_reg(vga, i, b))
DacCall ==
    \/ Get("get_pel_mask", 0, [vga |-> vga, result |-> vgahw_get_pel_mask(vga)])
    \/ \E start \in {0, DacSize - 2}, b \in Values :
          Set("set_dac_regs", <<Colours(2, b), start>>,
              vgahw_set_dac_regs(vga, Colours(2, b), start, 2))
    \/ Get("get_dac_regs", <<1, 2>>, vgahw_get_dac_regs(vga, 1, 2))
    \/ \E b \in Values : Set("set_pel_mask", b, vgahw_set_pel_mask(vga, b))
    \/ LET s == vgahw_save_dac_state(vga)
       IN  /\ Call("save_dac_state", 0, s.vga, 0)
           /\ dinfo' = s.info /\ UNCHANGED <<info, mode>>
    \/ /\ dinfo # <<>>
       /\ Set("restore_dac_state", 0, vgahw_restore_dac_state(vga, dinfo))
MemoryCall ==
    \/ \E b \in Values :
          Set("set_text_block_specifier", b, vgahw_set_text_block_specifier(vga, b))
    \/ /\ Call("get_font_access", 0, get_font_access(vga), 0)
       /\ mode' = SetFontOpen(TRUE) /\ UNCHANGED <<info, dinfo>>
    \/ /\ Call("release_font_access", 0, release_font_access(vga), 0)
       /\ mode' = SetFontOpen(FALSE) /\ UNCHANGED <<info, dinfo>>
    \/ \E disable \in {0, 1} :
          Set("enable_video_addressing", disable,
              vgahw_enable_video_addressing(vga, disable))
CrtcCall ==
    \/ Get("get_vde", 0, vgahw_get_vde(vga))
    \/ Set("set_cursor_shape", <<13, 14>>, vgahw_set_cursor_shape(vga, 13, 14))
    \/ Set("set_active_page", 4000, vgahw_set_active_page(vga, 4000))
    \/ Set("set_cursor_pos", 1999, vgahw_set_cursor_pos(vga, 1999))
    \/ Set("set_scan_lines", 8, vgahw_set_scan_lines(vga, 8))
StateCall ==
    \/ LET s == vgahw_save_state(vga)
       IN  /\ Call("save_state", 0, s.vga, 0)
           /\ info' = [state |-> s.info, mode |-> mode] /\ UNCHANGED <<dinfo, mode>>
    \/ /\ info # <<>>
       /\ Call("restore_state", 0, vgahw_restore_state(vga, info.state), 0)
       /\ mode' = info.mode /\ UNCHANGED <<info, dinfo>>
    \/ \E m \in Modes :
          /\ Call("set_mode", m, vgahw_set_mode(vga,
                      video_param_table[vga_modes[find_vga_entry(m)].vparam]), 0)
          /\ mode' = [m |-> m, fontOpen |-> FALSE] /\ UNCHANGED <<info, dinfo>>

\* The adapter as some earlier use left it: either address for the CRTC, its
\* registers protected or not, the next attribute byte an index or a value.
Bytes(n, b) == [i \in 0..n - 1 |-> b]
Adapter(flip, misc, b) ==
    [flip |-> flip, misc |-> misc, actlIndex |-> 0, actl |-> Bytes(21, b),
     sequIndex |-> 0, sequ |-> Bytes(5, b), grdcIndex |-> 0, grdc |-> Bytes(9, b),
     crtcIndex |-> 0, crtc |-> Bytes(25, b), feature |-> 0, pelMask |-> 255,
     dac |-> Bytes(DacSize, [c \in 0..2 |-> 0]), dacRead |-> 0, dacWrite |-> 0,
     dacByte |-> 1, dacState |-> 0, plane |-> <<>>]
Init ==
    /\ \E flip \in BOOLEAN, misc \in {0, 103}, b \in {0, 255} :
          vga = Adapter(flip, misc, b)
    /\ info = <<>> /\ dinfo = <<>> /\ mode = <<>> /\ last = <<>> /\ calls = 0
Next == vgahw_init_call \/ AttributeCall \/ DacCall \/ MemoryCall \/ CrtcCall \/ StateCall
Spec == Init /\ [][Next]_vars

----------------------------------------------------------------------------
(* Properties. *)

\* The registers of an adapter, and those the two structures hold.
RegistersOf(v) ==
    [actl |-> v.actl, sequ |-> v.sequ, grdc |-> v.grdc, crtc |-> v.crtc,
     misc |-> v.misc, feature |-> v.feature, pelMask |-> v.pelMask,
     dac |-> v.dac, screen |-> Bit(v.actlIndex, 5) = 1]
SavedOf(i) ==
    [actl |-> i.actl, sequ |-> i.sequ, grdc |-> i.grdc,
     screen |-> Bit(i.actl_index, 5) = 1]
SavedDacOf(i) ==
    [pelMask |-> i.pelmask,
     dac |-> [e \in 0..DacSize - 1 |-> [c \in 0..2 |-> i.dac[3 * e + c + 1]]]]

\* Every function does to the registers what VgaRegisters says and nothing else,
\* in every sequence of calls: as long as the adapter is in colour, indices and
\* values never change places, a mode's CRTC values are not lost to their
\* protection, the screen is on after every call but the one that turns it off,
\* and the saved sequencer, graphics and attribute registers come back.  The
\* cursor, page and scan line calls reach no register, and a restored state
\* leaves the adapter in monochrome (src/vgaio.c; see CrtcAddressSelected).
Registers == INSTANCE VgaRegisters WITH
    reg <- RegistersOf(vga),
    saved <- IF info = <<>> THEN <<>> ELSE SavedOf(info.state),
    savedDac <- IF dinfo = <<>> THEN <<>> ELSE SavedDacOf(dinfo)
ImplementsRegisters == Registers!Spec

\* vgahw_init leaves the font where text mode reads it, byte for byte: glyph
\* c in plane 2 from 32 * c on, and nothing in the planes of the characters
\* and their colours (src/vgaio.c:587-599, the loop over vgafont16).
FontLoaded ==
    vga.plane = [c \in {2} \X {32 * ch + row : ch \in 0..Glyphs - 1, row \in 0..15} |->
                    vgafont16(c[2] \div 32, c[2] % 32)]

\* In a colour text mode, unless the font memory is open, the processor reaches
\* characters and colours by turns but never the font, also after the font
\* memory was opened and closed and after a saved state came back; and it finds
\* them where the list of modes says, or, once a restored state has left the
\* adapter in monochrome, at 0xb0000 (src/vgaio.c:300-323).
TextReachable ==
    LET entry == vga_modes[find_vga_entry(mode.m)]
    IN  (entry.memmodel = "CTEXT" /\ ~mode.fontOpen) =>
        /\ Window(vga) = entry.sstart \/ (~Colour(vga) /\ Window(vga) = SEG_MTEXT)
        /\ OddEven(vga) /\ ~Chain4(vga) /\ vga.sequ[2] = 3

\* After vgahw_init, and after any calls that follow it, the font is whole and
\* text can be written.
TextModeReady == mode # <<>> => FontLoaded /\ TextReachable

\* What a comment says and the code does not do.  vgaio.c:463, "select crtc
\* base address": the CRTC answers at the address of the mode that is set, the
\* colour one or the monochrome one, also after vgahw_restore_state.
CrtcAddressSelected ==
    mode # <<>> =>
        (Colour(vga) <=>
            video_param_table[vga_modes[find_vga_entry(mode.m)].vparam].miscreg % 2 = 1)
==============================================================================
