-------------------------------- MODULE KeyMaps --------------------------------
(***************************************************************************)
(* The keys a frame can name (crates/core/src/hid.rs) and the tables each  *)
(* platform translates them with: one to emit a usage, written by hand,    *)
(* and another to read a native code, written by hand as well              *)
(* (pal-x11, pal-windows and pal-macos, src/keymap.rs).                    *)
(***************************************************************************)
EXTENDS Naturals, Sequences

Letters == \h04 .. \h1D
Digits == \h1E .. \h27
Editing == \h28 .. \h2C
Punctuation == \h2D .. \h38
CapsLock == {\h39}
FunctionKeys == \h3A .. \h45
System == \h46 .. \h48
EditingCluster == \h49 .. \h4E
Arrows == \h4F .. \h52
Keypad == \h53 .. \h63
NonUs == {\h32, \h64}
Application == {\h65}
MoreFunctionKeys == \h68 .. \h73
Modifiers == \hE0 .. \hE7
Consumer == {\hCE2, \hCE9, \hCEA, \hCCD, \hCB5, \hCB6, \hCB7, \hC6F, \hC70,
             \hCB8}

Usages ==
    UNION {Letters, Digits, Editing, Punctuation, CapsLock, FunctionKeys,
           System, EditingCluster, Arrows, Keypad, NonUs, Application,
           MoreFunctionKeys, Modifiers, Consumer}

\* The usages the tables name.
KEY_A == \h04
KEY_1 == \h1E
KEY_0 == \h27
ENTER == \h28
SEMICOLON == \h33
INSERT == \h49
KP_ENTER == \h58
APPLICATION == \h65
F13 == \h68
LCTRL == \hE0
LSHIFT == \hE1
LALT == \hE2
RALT == \hE6

\* A stretch of a table: the codes of consecutive usages.
Row(first, codes) == [u \in first .. first + Len(codes) - 1 |->
                        codes[u - first + 1]]

\* A table read backwards, from native codes to usages.
Reading(table) ==
    [k \in {table[u] : u \in DOMAIN table} |->
        CHOOSE u \in DOMAIN table : table[u] = k]

\* The arms of a match: those of f come first.
f ++ g ==
    [u \in DOMAIN f \cup DOMAIN g |-> IF u \in DOMAIN f THEN f[u] ELSE g[u]]

\* Letters and digits, read by range.
LowerCase == [k \in \h61 .. \h7A |-> k - \h61 + KEY_A]
UpperCase == [k \in \h41 .. \h5A |-> k - \h41 + KEY_A]
Zero == [k \in {\h30} |-> KEY_0]
OneToNine == [k \in \h31 .. \h39 |-> k - \h31 + KEY_1]
-------------------------------------------------------------------------------
(* X11: keysyms.                                                            *)

alpha_to_keysym == [u \in Letters |-> \h61 + (u - KEY_A)]

digit_to_keysym ==
    [u \in Digits |-> \h30 + (IF u = KEY_0 THEN 0 ELSE u - KEY_1 + 1)]

KeysymEditing ==
    Row(ENTER, <<\hFF0D, \hFF1B, \hFF08, \hFF09, \h20, \h2D, \h3D, \h5B, \h5D,
                 \h5C>>)
KeysymOther ==
    Row(SEMICOLON, <<\h3B, \h27, \h60, \h2C, \h2E, \h2F, \hFFE5, \hFFBE, \hFFBF,
                     \hFFC0, \hFFC1, \hFFC2, \hFFC3, \hFFC4, \hFFC5, \hFFC6,
                     \hFFC7, \hFFC8, \hFFC9, \hFF61, \hFF14, \hFF13, \hFF63,
                     \hFF50, \hFF55, \hFFFF, \hFF57, \hFF56, \hFF53, \hFF51,
                     \hFF54, \hFF52, \hFF7F, \hFFAF, \hFFAA, \hFFAD, \hFFAB,
                     \hFF8D, \hFFB1, \hFFB2, \hFFB3, \hFFB4, \hFFB5, \hFFB6,
                     \hFFB7, \hFFB8, \hFFB9, \hFFB0, \hFFAE>>)
KeysymMenu == Row(APPLICATION, <<\hFF67>>)
KeysymFunctions ==
    Row(F13, <<\hFFCA, \hFFCB, \hFFCC, \hFFCD, \hFFCE, \hFFCF, \hFFD0, \hFFD1,
               \hFFD2, \hFFD3, \hFFD4, \hFFD5>>)
KeysymModifiers ==
    Row(LCTRL, <<\hFFE3, \hFFE1, \hFFE9, \hFFEB, \hFFE4, \hFFE2, \hFFEA, \hFFEC>>)

hid_to_keysym ==
    alpha_to_keysym ++ digit_to_keysym ++ KeysymEditing ++ KeysymOther
    ++ KeysymMenu ++ KeysymFunctions ++ KeysymModifiers

\* What is read by name, written a second time.
ReadKeysymEditing ==
    Row(ENTER, <<\hFF0D, \hFF1B, \hFF08, \hFF09, \h20, \h2D, \h3D, \h5B, \h5D,
                 \h5C>>)
ReadKeysymOther ==
    Row(SEMICOLON, <<\h3B, \h27, \h60, \h2C, \h2E, \h2F, \hFFE5, \hFFBE, \hFFBF,
                     \hFFC0, \hFFC1, \hFFC2, \hFFC3, \hFFC4, \hFFC5, \hFFC6,
                     \hFFC7, \hFFC8, \hFFC9>>)
ReadKeysymCluster ==
    Row(INSERT, <<\hFF63, \hFF50, \hFF55, \hFFFF, \hFF57, \hFF56, \hFF53,
                  \hFF51, \hFF54, \hFF52, \hFF7F>>)
ReadKeysymModifiers ==
    Row(LCTRL, <<\hFFE3, \hFFE1, \hFFE9, \hFFEB, \hFFE4, \hFFE2, \hFFEA, \hFFEC>>)

\* Letters of either case and digits are read by range, the rest by name.
keysym_to_hid ==
    LowerCase ++ UpperCase ++ Zero ++ OneToNine
    ++ Reading(ReadKeysymEditing) ++ Reading(ReadKeysymOther)
    ++ Reading(ReadKeysymCluster) ++ Reading(ReadKeysymModifiers)
-------------------------------------------------------------------------------
(* Windows: scan codes and virtual keys. SendInput looks at the scan code   *)
(* and the flag of the extended keys, the hook at the virtual key alone.    *)

\* Mutant of Extended: the flag of the extended keys is forgotten.
ExtendedLost(scan) == scan

\* An extended key shares its scan code with a key of the old keyboard.
Extended(scan) == \hE000 + scan

LETTER_SCANCODES ==
    <<\h1E, \h30, \h2E, \h20, \h12, \h21, \h22, \h23, \h17, \h24, \h25, \h26,
      \h32, \h31, \h18, \h19, \h10, \h13, \h1F, \h14, \h16, \h2F, \h11, \h2D,
      \h15, \h2C>>

DIGIT_SCANCODES ==
    <<\h02, \h03, \h04, \h05, \h06, \h07, \h08, \h09, \h0A, \h0B>>

ScanLetters == Row(KEY_A, LETTER_SCANCODES)
ScanDigits == Row(KEY_1, DIGIT_SCANCODES)
ScanEditing ==
    Row(ENTER, <<\h1C, \h01, \h0E, \h0F, \h39, \h0C, \h0D, \h1A, \h1B, \h2B>>)
ScanOther ==
    Row(SEMICOLON, <<\h27, \h28, \h29, \h33, \h34, \h35, \h3A, \h3B, \h3C, \h3D,
                     \h3E, \h3F, \h40, \h41, \h42, \h43, \h44, \h57, \h58,
                     Extended(\h37), \h46, \h45, Extended(\h52), Extended(\h47),
                     Extended(\h49), Extended(\h53), Extended(\h4F),
                     Extended(\h51), Extended(\h4D), Extended(\h4B),
                     Extended(\h50), Extended(\h48), Extended(\h45),
                     Extended(\h35), \h37, \h4A, \h4E, Extended(\h1C), \h4F,
                     \h50, \h51, \h4B, \h4C, \h4D, \h47, \h48, \h49, \h52, \h53>>)
ScanMenu == Row(APPLICATION, <<Extended(\h5D)>>)
ScanModifiers ==
    Row(LCTRL, <<\h1D, \h2A, \h38, Extended(\h5B), Extended(\h1D), \h36,
                 Extended(\h38), Extended(\h5C)>>)

hid_to_win_scan ==
    ScanLetters ++ ScanDigits ++ ScanEditing ++ ScanOther ++ ScanMenu
    ++ ScanModifiers

VkLetters == [u \in Letters |-> \h41 + (u - KEY_A)]
VkDigits == [u \in Digits |-> IF u = KEY_0 THEN \h30 ELSE \h31 + (u - KEY_1)]
VkEditing ==
    Row(ENTER, <<\h0D, \h1B, \h08, \h09, \h20, \hBD, \hBB, \hDB, \hDD, \hDC>>)
VkOther ==
    Row(SEMICOLON, <<\hBA, \hDE, \hC0, \hBC, \hBE, \hBF, \h14, \h70, \h71, \h72,
                     \h73, \h74, \h75, \h76, \h77, \h78, \h79, \h7A, \h7B, \h2C,
                     \h91, \h13, \h2D, \h24, \h21, \h2E, \h23, \h22, \h27, \h25,
                     \h28, \h26, \h90, \h6F, \h6A, \h6D, \h6B, \h0D, \h61, \h62,
                     \h63, \h64, \h65, \h66, \h67, \h68, \h69, \h60, \h6E>>)
VkMenu == Row(APPLICATION, <<\h5D>>)
VkModifiers == Row(LCTRL, <<\hA2, \hA0, \hA4, \h5B, \hA3, \hA1, \hA5, \h5C>>)

hid_to_win_vk ==
    VkLetters ++ VkDigits ++ VkEditing ++ VkOther ++ VkMenu ++ VkModifiers

ReadVkEditing ==
    Row(ENTER, <<\h0D, \h1B, \h08, \h09, \h20, \hBD, \hBB, \hDB, \hDD, \hDC>>)
ReadVkOther ==
    Row(SEMICOLON, <<\hBA, \hDE, \hC0, \hBC, \hBE, \hBF, \h14, \h70, \h71, \h72,
                     \h73, \h74, \h75, \h76, \h77, \h78, \h79, \h7A, \h7B, \h2C,
                     \h91, \h13, \h2D, \h24, \h21, \h2E, \h23, \h22, \h27, \h25,
                     \h28, \h26, \h90>>)
ReadVkModifiers == Row(LCTRL, <<\hA2, \hA0, \hA4, \h5B, \hA3, \hA1, \hA5, \h5C>>)

vk_to_hid ==
    UpperCase ++ Zero ++ OneToNine
    ++ Reading(ReadVkEditing) ++ Reading(ReadVkOther) ++ Reading(ReadVkModifiers)
-------------------------------------------------------------------------------
(* macOS: key codes. Its own table for reading has no caller, the capture   *)
(* of that platform being a scaffold.                                       *)

MacTyping ==
    Row(KEY_A, <<\h00, \h0B, \h08, \h02, \h0E, \h03, \h05, \h04, \h22, \h26,
                 \h28, \h25, \h2E, \h2D, \h1F, \h23, \h0C, \h0F, \h01, \h11,
                 \h20, \h09, \h0D, \h07, \h10, \h06, \h12, \h13, \h14, \h15,
                 \h17, \h16, \h1A, \h1C, \h19, \h1D, \h24, \h35, \h33, \h30,
                 \h31, \h1B, \h18, \h21, \h1E, \h2A>>)
MacOther ==
    Row(SEMICOLON, <<\h29, \h27, \h32, \h2B, \h2F, \h2C, \h39, \h7A, \h78, \h63,
                     \h76, \h60, \h61, \h62, \h64, \h65, \h6D, \h67, \h6F>>)
MacCluster ==
    Row(INSERT, <<\h72, \h73, \h74, \h75, \h77, \h79, \h7C, \h7B, \h7D, \h7E>>)
MacModifiers == Row(LCTRL, <<\h3B, \h38, \h3A, \h37, \h3E, \h3C, \h3D, \h36>>)

hid_to_mac == MacTyping ++ MacOther ++ MacCluster ++ MacModifiers

ReadMacTyping ==
    Row(KEY_A, <<\h00, \h0B, \h08, \h02, \h0E, \h03, \h05, \h04, \h22, \h26,
                 \h28, \h25, \h2E, \h2D, \h1F, \h23, \h0C, \h0F, \h01, \h11,
                 \h20, \h09, \h0D, \h07, \h10, \h06, \h12, \h13, \h14, \h15,
                 \h17, \h16, \h1A, \h1C, \h19, \h1D, \h24, \h35, \h33, \h30,
                 \h31, \h1B, \h18, \h21, \h1E, \h2A>>)
ReadMacOther ==
    Row(SEMICOLON, <<\h29, \h27, \h32, \h2B, \h2F, \h2C, \h39, \h7A, \h78, \h63,
                     \h76, \h60, \h61, \h62, \h64, \h65, \h6D, \h67, \h6F>>)
ReadMacCluster ==
    Row(INSERT, <<\h72, \h73, \h74, \h75, \h77, \h79, \h7C, \h7B, \h7D, \h7E>>)
ReadMacModifiers == Row(LCTRL, <<\h3B, \h38, \h3A, \h37, \h3E, \h3C, \h3D, \h36>>)

mac_to_hid ==
    Reading(ReadMacTyping) ++ Reading(ReadMacOther) ++ Reading(ReadMacCluster)
    ++ Reading(ReadMacModifiers)
===============================================================================
