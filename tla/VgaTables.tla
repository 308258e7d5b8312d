------------------------------ MODULE VgaTables ------------------------------
(***************************************************************************)
(* The ports of the VGA adapter (src/vgatables.h) and the tables the mode  *)
(* set works from (src/vgatables.c): the register values of each BIOS mode *)
(* and the list of modes.  Rows that several modes share are named after   *)
(* the first entry that has them.                                          *)
(***************************************************************************)
EXTENDS Integers, Sequences

VGAREG_ACTL_ADDRESS == 960          \* 0x3c0: index and data, by turns
VGAREG_ACTL_WRITE_DATA == 960
VGAREG_ACTL_READ_DATA == 961
VGAREG_WRITE_MISC_OUTPUT == 962
VGAREG_SEQU_ADDRESS == 964
VGAREG_SEQU_DATA == 965
VGAREG_PEL_MASK == 966
VGAREG_DAC_STATE == 967
VGAREG_DAC_READ_ADDRESS == 967
VGAREG_DAC_WRITE_ADDRESS == 968
VGAREG_DAC_DATA == 969
VGAREG_READ_FEATURE_CTL == 970
VGAREG_READ_MISC_OUTPUT == 972
VGAREG_GRDC_ADDRESS == 974
VGAREG_GRDC_DATA == 975
VGAREG_MDA_CRTC_ADDRESS == 948      \* 0x3b4, monochrome
VGAREG_VGA_CRTC_ADDRESS == 980      \* 0x3d4, colour
VGAREG_MDA_WRITE_FEATURE_CTL == 954
VGAREG_VGA_WRITE_FEATURE_CTL == 986
VGAREG_ACTL_RESET == 986            \* 0x3da; decoded in colour only
SEG_GRAPH == 40960                  \* 0xA000
SEG_CTEXT == 47104                  \* 0xB800
SEG_MTEXT == 45056                  \* 0xB000

\* The palettes: red, green and blue of entry 0, then of entry 1, and so on.
PaletteOf(n, Color(_)) ==
    [k \in 1..3 * n |-> Color((k - 1) \div 3)[1 + ((k - 1) % 3)]]
\* The bits of c choose the components, bright adds to all; dark yellow is brown.
CgaColor(c, bright) ==
    [k \in 1..3 |-> IF k = 2 /\ c = 6 /\ bright = 0 THEN 21
                    ELSE 42 * ((c \div 2^(3 - k)) % 2) + 21 * bright]
\* The j-th of 24 colours from blue over red, yellow and green back to blue.
Hue(levels, j) ==
    [k \in 1..3 |-> LET t == (j + <<0, 16, 8>>[k]) % 24
                    IN  levels[IF t < 4 THEN t + 1 ELSE IF t <= 12 THEN 5
                               ELSE IF t < 16 THEN 17 - t ELSE 1]]
Hues == <<<<0,16,31,47,63>>, <<31,39,47,55,63>>, <<45,49,54,58,63>>,
          <<0,7,14,21,28>>, <<14,17,21,24,28>>, <<20,22,24,26,28>>,
          <<0,4,8,12,16>>, <<8,10,12,14,16>>, <<11,12,13,15,16>>>>
Greys == <<0,5,8,11,14,17,20,24,28,32,36,40,45,50,56,63>>
palette0 == PaletteOf(64, LAMBDA i : [k \in 1..3 |-> <<0,42,42,63>>[1 + ((i \div 8) % 4)]])
palette1 == PaletteOf(64, LAMBDA i : CgaColor(i % 8, (i \div 16) % 2))
palette2 == PaletteOf(64, LAMBDA i :
    [k \in 1..3 |-> 42 * ((i \div 2^(3 - k)) % 2) + 21 * ((i \div 2^(6 - k)) % 2)])
palette3 == PaletteOf(256, LAMBDA i :
    IF i < 16 THEN CgaColor(i % 8, i \div 8)
    ELSE IF i < 32 THEN [k \in 1..3 |-> Greys[i - 15]]
    ELSE IF i < 248 THEN Hue(Hues[1 + (i - 32) \div 24], (i - 32) % 24) ELSE <<0,0,0>>)
\* A row of the mode list has a pointer to one of them.
palettes(dac) ==
    CASE dac = "palette0" -> palette0 [] dac = "palette1" -> palette1
      [] dac = "palette2" -> palette2 [] dac = "palette3" -> palette3

\* An entry of the parameter table: columns, rows - 1, lines of a character
\* and page size, then the registers; and an entry of the mode list, with the
\* size of its palette in bytes.
VideoParam_s(size, sequ, misc, crtc, actl, grdc) ==
    [size |-> size, sequ_regs |-> sequ, miscreg |-> misc, crtc_regs |-> crtc,
     actl_regs |-> actl, grdc_regs |-> grdc]
vgamode_s(mode, vparam, memmodel, sstart, dac) ==
    [svgamode |-> mode, vparam |-> vparam, memmodel |-> memmodel,
     sstart |-> sstart, dac |-> dac,
     dacsize |-> IF dac = "palette3" THEN 768 ELSE 192]

crtc04 == <<45,39,40,144,43,128,191,31,0,193,0,0,0,0,0,0,156,142,143,20,0,150,
    185,162,255>>
crtc06 == <<95,79,80,130,84,128,191,31,0,193,0,0,0,0,0,0,156,142,143,40,0,150,
    185,194,255>>
crtc07 == <<95,79,80,130,85,129,191,31,0,79,13,14,0,0,0,0,156,142,143,40,15,
    150,185,163,255>>
crtc0d == <<45,39,40,144,43,128,191,31,0,192,0,0,0,0,0,0,156,142,143,20,0,150,
    185,227,255>>
crtc0e == <<95,79,80,130,84,128,191,31,0,192,0,0,0,0,0,0,156,142,143,40,0,150,
    185,227,255>>
crtc11 == <<95,79,80,130,84,128,191,31,0,64,0,0,0,0,0,0,131,133,93,40,15,99,
    186,227,255>>
crtc17 == <<45,39,40,144,43,160,191,31,0,79,13,14,0,0,0,0,156,142,143,20,31,
    150,185,163,255>>
crtc18 == <<95,79,80,130,85,129,191,31,0,79,13,14,0,0,0,0,156,142,143,40,31,
    150,185,163,255>>
crtc1a == <<95,79,80,130,84,128,11,62,0,64,0,0,0,0,0,0,234,140,223,40,0,231,4,
    227,255>>
crtc1c == <<95,79,80,130,84,128,191,31,0,65,0,0,0,0,0,0,156,142,143,40,64,150,
    185,163,255>>
crtc1d == <<127,99,99,131,107,27,114,240,0,96,0,0,0,0,0,0,89,141,87,50,0,87,
    115,227,255>>
actl04 == <<0,19,21,23,2,4,6,7,16,17,18,19,20,21,22,23,1,0,3,0>>
actl06 == <<0,23,23,23,23,23,23,23,23,23,23,23,23,23,23,23,1,0,1,0>>
actl07 == <<0,8,8,8,8,8,8,8,16,24,24,24,24,24,24,24,14,0,15,8>>
actl0d == <<0,1,2,3,4,5,6,7,16,17,18,19,20,21,22,23,1,0,15,0>>
actl11 == <<0,8,0,0,24,24,0,0,0,8,0,0,0,24,0,0,1,0,1,0>>
actl12 == <<0,1,2,3,4,5,20,7,56,57,58,59,60,61,62,63,1,0,15,0>>
actl17 == <<0,1,2,3,4,5,20,7,56,57,58,59,60,61,62,63,12,0,15,8>>
actl1a == <<0,63,0,63,0,63,0,63,0,63,0,63,0,63,0,63,1,0,15,0>>
actl1c == <<0,1,2,3,4,5,6,7,8,9,10,11,12,13,14,15,65,0,15,0>>

\* An index no mode has.
no_mode == VideoParam_s(<<0,0,0,0>>, <<0,0,0,0>>, 0, [k \in 1..25 |-> 0],
                        [k \in 1..20 |-> 0], [k \in 1..9 |-> 0])
\* The entries from index 0 on, and from 0x17 on.
params00 == <<
    no_mode, no_mode, no_mode, no_mode,
    VideoParam_s(<<40,24,8,2048>>, <<9,3,0,2>>, 99,
        crtc04, actl04, <<0,0,0,0,0,48,15,15,255>>),
    VideoParam_s(<<40,24,8,2048>>, <<9,3,0,2>>, 99,
        crtc04, actl04, <<0,0,0,0,0,48,15,15,255>>),
    VideoParam_s(<<80,24,8,4096>>, <<1,1,0,6>>, 99,
        crtc06, actl06, <<0,0,0,0,0,0,13,15,255>>),
    VideoParam_s(<<80,24,16,4096>>, <<0,3,0,2>>, 102,
        crtc07, actl07, <<0,0,0,0,0,16,10,15,255>>),
    no_mode, no_mode, no_mode, no_mode, no_mode,
    VideoParam_s(<<40,24,8,8192>>, <<9,15,0,6>>, 99,
        crtc0d, actl0d, <<0,0,0,0,0,0,5,15,255>>),
    VideoParam_s(<<80,24,8,16384>>, <<1,15,0,6>>, 99,
        crtc0e, actl0d, <<0,0,0,0,0,0,5,15,255>>),
    no_mode, no_mode,
    VideoParam_s(<<80,24,14,32768>>, <<1,15,0,6>>, 163,
        crtc11, actl11, <<0,0,0,0,0,0,5,15,255>>),
    VideoParam_s(<<80,24,14,32768>>, <<1,15,0,6>>, 163,
        crtc11, actl12, <<0,0,0,0,0,0,5,15,255>>),
    no_mode, no_mode, no_mode, no_mode>>
params17 == <<
    VideoParam_s(<<40,24,16,2048>>, <<8,3,0,2>>, 103,
        crtc17, actl17, <<0,0,0,0,0,16,14,15,255>>),
    VideoParam_s(<<80,24,16,4096>>, <<0,3,0,2>>, 103,
        crtc18, actl17, <<0,0,0,0,0,16,14,15,255>>),
    VideoParam_s(<<80,24,16,4096>>, <<0,3,0,2>>, 102,
        crtc07, actl07, <<0,0,0,0,0,16,10,15,255>>),
    VideoParam_s(<<80,29,16,0>>, <<1,15,0,6>>, 227,
        crtc1a, actl1a, <<0,0,0,0,0,0,5,15,255>>),
    VideoParam_s(<<80,29,16,0>>, <<1,15,0,6>>, 227,
        crtc1a, actl12, <<0,0,0,0,0,0,5,15,255>>),
    VideoParam_s(<<40,24,8,0>>, <<1,15,0,14>>, 99,
        crtc1c, actl1c, <<0,0,0,0,0,64,5,15,255>>),
    VideoParam_s(<<100,36,16,0>>, <<1,15,0,6>>, 227,
        crtc1d, actl12, <<0,0,0,0,0,0,5,15,255>>)>>
video_param_table ==
    [i \in 0..29 |-> IF i < 23 THEN params00[i + 1] ELSE params17[i - 22]]

vga_modes == <<
    vgamode_s(0, 23, "CTEXT", SEG_CTEXT, "palette2"),
    vgamode_s(1, 23, "CTEXT", SEG_CTEXT, "palette2"),
    vgamode_s(2, 24, "CTEXT", SEG_CTEXT, "palette2"),
    vgamode_s(3, 24, "CTEXT", SEG_CTEXT, "palette2"),
    vgamode_s(4, 4, "CGA", SEG_CTEXT, "palette1"),
    vgamode_s(5, 5, "CGA", SEG_CTEXT, "palette1"),
    vgamode_s(6, 6, "CGA", SEG_CTEXT, "palette1"),
    vgamode_s(7, 7, "MTEXT", SEG_MTEXT, "palette0"),
    vgamode_s(13, 13, "PLANAR4", SEG_GRAPH, "palette1"),
    vgamode_s(14, 14, "PLANAR4", SEG_GRAPH, "palette1"),
    vgamode_s(15, 17, "PLANAR1", SEG_GRAPH, "palette0"),
    vgamode_s(16, 18, "PLANAR4", SEG_GRAPH, "palette2"),
    vgamode_s(17, 26, "PLANAR1", SEG_GRAPH, "palette2"),
    vgamode_s(18, 27, "PLANAR4", SEG_GRAPH, "palette2"),
    vgamode_s(19, 28, "LINEAR8", SEG_GRAPH, "palette3"),
    vgamode_s(106, 29, "PLANAR4", SEG_GRAPH, "palette2")>>

\* The first entry of the list for the mode; 0 stands for the NULL of a mode
\* that is not in it.
find_vga_entry(mode) ==
    LET at == {i \in DOMAIN vga_modes : vga_modes[i].svgamode = mode}
    IN  IF at = {} THEN 0 ELSE CHOOSE i \in at : \A j \in at : i <= j
==============================================================================
