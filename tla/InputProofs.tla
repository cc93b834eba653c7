------------------------------ MODULE InputProofs ------------------------------
(***************************************************************************)
(* Proofs about Input for every set of spokes, every pairing of platforms, *)
(* all keys and buttons, and any number of events.                         *)
(*                                                                         *)
(* The argument: the frames that are still to reach a spoke, those in its  *)
(* session and those the forwarder has yet to broadcast, are one sequence  *)
(* (Pipe). Of a native key or button, the last frame in it that moves it   *)
(* says what the hub holds; and if none does, what the spoke holds is what *)
(* the hub holds, once the spoke has emitted it (Follows). The same is     *)
(* true of a modifier and the mask, and of the frames up to any key frame  *)
(* and the mask in that frame.                                             *)
(***************************************************************************)
EXTENDS Input, SequenceTheorems, TLAPS

\* What the capture sends: it never presses a wheel.
Sent == {e \in Events : e.kind = "button" /\ e.pressed => e.code \notin Wheels}

\* Of the first n frames of q, the last one in X says whether i is in A; if
\* there is none, H does of c, which is in S.
Follows(q, n, X, c, S, H, i, A) ==
    /\ \A k \in 1 .. n :
          q[k] \in X /\ (\A j \in k + 1 .. n : q[j] \notin X) =>
              (q[k].pressed <=> i \in A)
    /\ c \in S /\ (\A k \in 1 .. n : q[k] \notin X) => (c \in H <=> i \in A)

\* What has still to reach s, if its session lasts.
Pipe(s) == frames[s] \o captured

\* The frames that press or release c on s.
Touching(s, c) == {e \in Sent : c \in Pressed(s, e)}

\* c follows input i of the hub.
InStep(s, c, i) ==
    Follows(Pipe(s), Len(Pipe(s)), Touching(s, c), c, seen[s], held[s], i, hubHeld)

\* It follows modifier m of the mask, and of the masks on their way.
InMask(s, c, m) ==
    /\ Follows(Pipe(s), Len(Pipe(s)), Touching(s, c), c, seen[s], held[s], m, mask)
    /\ \A l \in 1 .. Len(Pipe(s)) :
          Pipe(s)[l].kind = "key" =>
              Follows(Pipe(s), l, Touching(s, c), c, seen[s], held[s], m,
                      Pipe(s)[l].mask)

\* The inputs that are pressed and released, and those that alone move c.
Pressable == Inputs \ ({"button"} \X Wheels)
Alone(s, i, c) ==
    c \in Reaches(s, i) /\ \A j \in Inputs \ {i} : c \notin Reaches(s, j)

InputsOK(s) ==
    \A i \in Pressable : \A c \in Reaches(s, i) : Alone(s, i, c) => InStep(s, c, i)

MasksOK(s) ==
    Confused[os[s]] = {} =>
        \A m \in Modifiers : \A c \in KeyOf(s, m) : InMask(s, c, m)

\* Every frame is one that the capture sends; without a session nothing is on
\* its way to a spoke but what the forwarder has.
Kinds ==
    /\ captured \in Seq(Sent) /\ frames \in [Spokes -> Seq(Sent)]
    /\ seen \in [Spokes -> SUBSET ({"key", "button"} \X Nat)]
    /\ \A s \in Spokes \ session : frames[s] = <<>> /\ seen[s] = {}

\* The inductive invariant.
Inv ==
    /\ TypeOK /\ Kinds
    /\ \A s \in Spokes : InputsOK(s) /\ MasksOK(s)
-------------------------------------------------------------------------------
(* Key tables.                                                              *)

\* Off the usages in S, no two usages of table f have the same code.
OneToOne(f, S) == \A u, v \in DOMAIN f \ S : f[u] = f[v] => u = v

\* Nor has one of f the code of one of g.
Apart(f, g, S) == \A u \in DOMAIN f \ S, v \in DOMAIN g \ S : f[u] # g[v]

\* Table f has all of r.
Part(r, f) == \A u \in DOMAIN r : u \in DOMAIN f /\ f[u] = r[u]

\* Of the codes of f, off the usages in S, table r reads those it has as f
\* writes them.
ReadsBack(r, f, S) ==
    \A k \in DOMAIN r : \A u \in DOMAIN f \ S : f[u] = k => r[k] = u

Numbers(f) == \A u \in DOMAIN f : f[u] \in Nat

\* A match has what its arms have.
LEMMA ArmsOneToOne ==
    ASSUME NEW f, NEW g, NEW S, OneToOne(f, S), OneToOne(g, S), Apart(f, g, S)
    PROVE  OneToOne(f ++ g, S)
BY DEF OneToOne, Apart, ++

LEMMA ArmsApart ==
    ASSUME NEW f, NEW g, NEW h, NEW S, Apart(f, h, S), Apart(g, h, S)
    PROVE  Apart(f ++ g, h, S)
BY DEF Apart, ++

LEMMA ArmsPart ==
    ASSUME NEW r, NEW f, NEW g,
           Part(r, f) \/ (Part(r, g) /\ DOMAIN f \cap DOMAIN r = {})
    PROVE  Part(r, f ++ g)
BY DEF Part, ++

LEMMA ArmsReadBack ==
    ASSUME NEW q, NEW r, NEW f, NEW S, ReadsBack(q, f, S), ReadsBack(r, f, S)
    PROVE  ReadsBack(q ++ r, f, S)
BY DEF ReadsBack, ++

LEMMA ReadsBackArms ==
    ASSUME NEW r, NEW f, NEW g, NEW S, ReadsBack(r, f, S), ReadsBack(r, g, S)
    PROVE  ReadsBack(r, f ++ g, S)
BY DEF ReadsBack, ++

LEMMA ArmsNumbers ==
    ASSUME NEW f, NEW g, Numbers(f), Numbers(g)
    PROVE  Numbers(f ++ g)
BY DEF Numbers, ++

LEMMA ReadingNumbers ==
    ASSUME NEW r, DOMAIN r \subseteq Nat
    PROVE  Numbers(Reading(r))
BY DEF Numbers, Reading

\* A row that a table has, written again to be read, undoes the table.
LEMMA RowReadsBack ==
    ASSUME NEW r, NEW f, NEW S, Part(r, f), OneToOne(f, S), DOMAIN r \cap S = {}
    PROVE  ReadsBack(Reading(r), f, S)
<1>1. DOMAIN Reading(r) = {r[u] : u \in DOMAIN r}
    BY DEF Reading
<1> SUFFICES ASSUME NEW k \in DOMAIN Reading(r), NEW u \in DOMAIN f \ S, f[u] = k
             PROVE  Reading(r)[k] = u
    BY DEF ReadsBack
<1>2. PICK v \in DOMAIN r : v = Reading(r)[k] /\ r[v] = k
    BY <1>1 DEF Reading
<1>3. v \in DOMAIN f \ S /\ f[v] = k
    BY <1>2 DEF Part
<1> QED BY <1>2, <1>3 DEF OneToOne

\* No two usages have the same code in hid_to_keysym.
LEMMA KeysymOneToOne == OneToOne(hid_to_keysym, {})
<1>1. /\ OneToOne(alpha_to_keysym, {}) /\ OneToOne(digit_to_keysym, {})
      /\ OneToOne(KeysymEditing, {}) /\ OneToOne(KeysymOther, {})
      /\ OneToOne(KeysymMenu, {}) /\ OneToOne(KeysymFunctions, {})
      /\ OneToOne(KeysymModifiers, {})
    BY DEF OneToOne, alpha_to_keysym, Letters, KEY_A, digit_to_keysym, Digits,
       KEY_0, KEY_1, KeysymEditing, Row, ENTER, KeysymOther, SEMICOLON,
       KeysymMenu, APPLICATION, KeysymFunctions, F13, KeysymModifiers, LCTRL
<1>2. Apart(alpha_to_keysym, digit_to_keysym, {})
    BY DEF Apart, alpha_to_keysym, Letters, KEY_A, digit_to_keysym, Digits,
       KEY_0, KEY_1
<1>3. Apart(alpha_to_keysym ++ digit_to_keysym, KeysymEditing, {})
    <2>1. /\ Apart(alpha_to_keysym, KeysymEditing, {})
          /\ Apart(digit_to_keysym, KeysymEditing, {})
        BY DEF Apart, alpha_to_keysym, Letters, KEY_A, digit_to_keysym, Digits,
           KEY_0, KEY_1, KeysymEditing, Row, ENTER
    <2> QED BY <2>1, ArmsApart
<1>4. Apart(alpha_to_keysym ++ digit_to_keysym ++ KeysymEditing, KeysymOther,
           {})
    <2>1. /\ Apart(alpha_to_keysym, KeysymOther, {})
          /\ Apart(digit_to_keysym, KeysymOther, {})
          /\ Apart(KeysymEditing, KeysymOther, {})
        BY DEF Apart, alpha_to_keysym, Letters, KEY_A, digit_to_keysym, Digits,
           KEY_0, KEY_1, KeysymEditing, Row, ENTER, KeysymOther, SEMICOLON
    <2> QED BY <2>1, ArmsApart
<1>5. Apart(alpha_to_keysym ++ digit_to_keysym ++ KeysymEditing ++ KeysymOther,
           KeysymMenu, {})
    <2>1. /\ Apart(alpha_to_keysym, KeysymMenu, {})
          /\ Apart(digit_to_keysym, KeysymMenu, {})
          /\ Apart(KeysymEditing, KeysymMenu, {})
          /\ Apart(KeysymOther, KeysymMenu, {})
        BY DEF Apart, alpha_to_keysym, Letters, KEY_A, digit_to_keysym, Digits,
           KEY_0, KEY_1, KeysymEditing, Row, ENTER, KeysymOther, SEMICOLON,
           KeysymMenu, APPLICATION
    <2> QED BY <2>1, ArmsApart
<1>6. Apart(alpha_to_keysym ++ digit_to_keysym ++ KeysymEditing ++ KeysymOther
           ++ KeysymMenu, KeysymFunctions, {})
    <2>1. /\ Apart(alpha_to_keysym, KeysymFunctions, {})
          /\ Apart(digit_to_keysym, KeysymFunctions, {})
          /\ Apart(KeysymEditing, KeysymFunctions, {})
          /\ Apart(KeysymOther, KeysymFunctions, {})
          /\ Apart(KeysymMenu, KeysymFunctions, {})
        BY DEF Apart, alpha_to_keysym, Letters, KEY_A, digit_to_keysym, Digits,
           KEY_0, KEY_1, KeysymEditing, Row, ENTER, KeysymOther, SEMICOLON,
           KeysymMenu, APPLICATION, KeysymFunctions, F13
    <2> QED BY <2>1, ArmsApart
<1>7. Apart(alpha_to_keysym ++ digit_to_keysym ++ KeysymEditing ++ KeysymOther
           ++ KeysymMenu ++ KeysymFunctions, KeysymModifiers, {})
    <2>1. /\ Apart(alpha_to_keysym, KeysymModifiers, {})
          /\ Apart(digit_to_keysym, KeysymModifiers, {})
          /\ Apart(KeysymEditing, KeysymModifiers, {})
          /\ Apart(KeysymOther, KeysymModifiers, {})
          /\ Apart(KeysymMenu, KeysymModifiers, {})
          /\ Apart(KeysymFunctions, KeysymModifiers, {})
        BY DEF Apart, alpha_to_keysym, Letters, KEY_A, digit_to_keysym, Digits,
           KEY_0, KEY_1, KeysymEditing, Row, ENTER, KeysymOther, SEMICOLON,
           KeysymMenu, APPLICATION, KeysymFunctions, F13, KeysymModifiers, LCTRL
    <2> QED BY <2>1, ArmsApart
<1> QED BY <1>1, <1>2, <1>3, <1>4, <1>5, <1>6, <1>7, ArmsOneToOne DEF
          hid_to_keysym

LEMMA KeysymNumbers == Numbers(hid_to_keysym)
<1>1. /\ Numbers(alpha_to_keysym) /\ Numbers(digit_to_keysym)
      /\ Numbers(KeysymEditing) /\ Numbers(KeysymOther) /\ Numbers(KeysymMenu)
      /\ Numbers(KeysymFunctions) /\ Numbers(KeysymModifiers)
    BY DEF Numbers, alpha_to_keysym, Letters, KEY_A, digit_to_keysym, Digits,
       KEY_0, KEY_1, KeysymEditing, Row, ENTER, KeysymOther, SEMICOLON,
       KeysymMenu, APPLICATION, KeysymFunctions, F13, KeysymModifiers, LCTRL
<1> QED BY <1>1, ArmsNumbers DEF hid_to_keysym

LEMMA KeysymDomains ==
    /\ DOMAIN alpha_to_keysym = 4 .. 29 /\ DOMAIN digit_to_keysym = 30 .. 39
    /\ DOMAIN KeysymEditing = 40 .. 49 /\ DOMAIN KeysymOther = 51 .. 99
    /\ DOMAIN KeysymMenu = {101} /\ DOMAIN KeysymFunctions = 104 .. 115
    /\ DOMAIN KeysymModifiers = 224 .. 231
BY DEF alpha_to_keysym, Letters, KEY_A, digit_to_keysym, Digits, KEY_0, KEY_1,
   KeysymEditing, Row, ENTER, KeysymOther, SEMICOLON, KeysymMenu, APPLICATION,
   KeysymFunctions, F13, KeysymModifiers, LCTRL

\* keysym_to_hid undoes hid_to_keysym.
LEMMA KeysymRead ==
    ReadsBack(keysym_to_hid, hid_to_keysym, {}) /\ Numbers(keysym_to_hid)
<1>1. ReadsBack(LowerCase, hid_to_keysym, {})
    <2>1. /\ ReadsBack(LowerCase, alpha_to_keysym, {})
          /\ ReadsBack(LowerCase, digit_to_keysym, {})
          /\ ReadsBack(LowerCase, KeysymEditing, {})
          /\ ReadsBack(LowerCase, KeysymOther, {})
          /\ ReadsBack(LowerCase, KeysymMenu, {})
          /\ ReadsBack(LowerCase, KeysymFunctions, {})
          /\ ReadsBack(LowerCase, KeysymModifiers, {})
        BY DEF ReadsBack, LowerCase, KEY_A, alpha_to_keysym, Letters,
           digit_to_keysym, Digits, KEY_0, KEY_1, KeysymEditing, Row, ENTER,
           KeysymOther, SEMICOLON, KeysymMenu, APPLICATION, KeysymFunctions,
           F13, KeysymModifiers, LCTRL
    <2> QED BY <2>1, ReadsBackArms DEF hid_to_keysym
<1>2. ReadsBack(UpperCase, hid_to_keysym, {})
    <2>1. /\ ReadsBack(UpperCase, alpha_to_keysym, {})
          /\ ReadsBack(UpperCase, digit_to_keysym, {})
          /\ ReadsBack(UpperCase, KeysymEditing, {})
          /\ ReadsBack(UpperCase, KeysymOther, {})
          /\ ReadsBack(UpperCase, KeysymMenu, {})
          /\ ReadsBack(UpperCase, KeysymFunctions, {})
          /\ ReadsBack(UpperCase, KeysymModifiers, {})
        BY DEF ReadsBack, UpperCase, KEY_A, alpha_to_keysym, Letters,
           digit_to_keysym, Digits, KEY_0, KEY_1, KeysymEditing, Row, ENTER,
           KeysymOther, SEMICOLON, KeysymMenu, APPLICATION, KeysymFunctions,
           F13, KeysymModifiers, LCTRL
    <2> QED BY <2>1, ReadsBackArms DEF hid_to_keysym
<1>3. ReadsBack(Zero, hid_to_keysym, {})
    <2>1. /\ ReadsBack(Zero, alpha_to_keysym, {})
          /\ ReadsBack(Zero, digit_to_keysym, {})
          /\ ReadsBack(Zero, KeysymEditing, {})
          /\ ReadsBack(Zero, KeysymOther, {}) /\ ReadsBack(Zero, KeysymMenu, {})
          /\ ReadsBack(Zero, KeysymFunctions, {})
          /\ ReadsBack(Zero, KeysymModifiers, {})
        BY DEF ReadsBack, Zero, KEY_0, alpha_to_keysym, Letters, KEY_A,
           digit_to_keysym, Digits, KEY_1, KeysymEditing, Row, ENTER,
           KeysymOther, SEMICOLON, KeysymMenu, APPLICATION, KeysymFunctions,
           F13, KeysymModifiers, LCTRL
    <2> QED BY <2>1, ReadsBackArms DEF hid_to_keysym
<1>4. ReadsBack(OneToNine, hid_to_keysym, {})
    <2>1. /\ ReadsBack(OneToNine, alpha_to_keysym, {})
          /\ ReadsBack(OneToNine, digit_to_keysym, {})
          /\ ReadsBack(OneToNine, KeysymEditing, {})
          /\ ReadsBack(OneToNine, KeysymOther, {})
          /\ ReadsBack(OneToNine, KeysymMenu, {})
          /\ ReadsBack(OneToNine, KeysymFunctions, {})
          /\ ReadsBack(OneToNine, KeysymModifiers, {})
        BY DEF ReadsBack, OneToNine, KEY_1, alpha_to_keysym, Letters, KEY_A,
           digit_to_keysym, Digits, KEY_0, KeysymEditing, Row, ENTER,
           KeysymOther, SEMICOLON, KeysymMenu, APPLICATION, KeysymFunctions,
           F13, KeysymModifiers, LCTRL
    <2> QED BY <2>1, ReadsBackArms DEF hid_to_keysym
<1>5. ReadsBack(Reading(ReadKeysymEditing), hid_to_keysym, {})
    <2>1. Part(ReadKeysymEditing, KeysymEditing)
        BY DEF Part, ReadKeysymEditing, Row, ENTER, KeysymEditing
    <2>2. DOMAIN (alpha_to_keysym ++ digit_to_keysym) \cap DOMAIN
                  ReadKeysymEditing = {}
        BY <2>1, KeysymDomains DEF ++, Part
    <2>3. Part(ReadKeysymEditing, hid_to_keysym)
        BY <2>1, <2>2, ArmsPart DEF hid_to_keysym
    <2> QED BY <2>1, <2>3, KeysymOneToOne, RowReadsBack
<1>6. ReadsBack(Reading(ReadKeysymOther), hid_to_keysym, {})
    <2>1. Part(ReadKeysymOther, KeysymOther)
        BY DEF Part, ReadKeysymOther, Row, SEMICOLON, KeysymOther
    <2>2. DOMAIN (alpha_to_keysym ++ digit_to_keysym ++ KeysymEditing) \cap
                  DOMAIN ReadKeysymOther = {}
        BY <2>1, KeysymDomains DEF ++, Part
    <2>3. Part(ReadKeysymOther, hid_to_keysym)
        BY <2>1, <2>2, ArmsPart DEF hid_to_keysym
    <2> QED BY <2>1, <2>3, KeysymOneToOne, RowReadsBack
<1>7. ReadsBack(Reading(ReadKeysymCluster), hid_to_keysym, {})
    <2>1. Part(ReadKeysymCluster, KeysymOther)
        BY DEF Part, ReadKeysymCluster, Row, INSERT, SEMICOLON, KeysymOther
    <2>2. DOMAIN (alpha_to_keysym ++ digit_to_keysym ++ KeysymEditing) \cap
                  DOMAIN ReadKeysymCluster = {}
        BY <2>1, KeysymDomains DEF ++, Part
    <2>3. Part(ReadKeysymCluster, hid_to_keysym)
        BY <2>1, <2>2, ArmsPart DEF hid_to_keysym
    <2> QED BY <2>1, <2>3, KeysymOneToOne, RowReadsBack
<1>8. ReadsBack(Reading(ReadKeysymModifiers), hid_to_keysym, {})
    <2>1. Part(ReadKeysymModifiers, KeysymModifiers)
        BY DEF Part, ReadKeysymModifiers, Row, LCTRL, KeysymModifiers
    <2>2. DOMAIN (alpha_to_keysym ++ digit_to_keysym ++ KeysymEditing ++
                  KeysymOther ++ KeysymMenu ++ KeysymFunctions) \cap DOMAIN
                  ReadKeysymModifiers = {}
        BY <2>1, KeysymDomains DEF ++, Part
    <2>3. Part(ReadKeysymModifiers, hid_to_keysym)
        BY <2>1, <2>2, ArmsPart DEF hid_to_keysym
    <2> QED BY <2>1, <2>3, KeysymOneToOne, RowReadsBack
<1>9. /\ Numbers(LowerCase) /\ Numbers(UpperCase) /\ Numbers(Zero)
      /\ Numbers(OneToNine)
    BY DEF Numbers, LowerCase, KEY_A, UpperCase, Zero, KEY_0, OneToNine, KEY_1
<1>10. /\ Numbers(Reading(ReadKeysymEditing))
       /\ Numbers(Reading(ReadKeysymOther))
       /\ Numbers(Reading(ReadKeysymCluster))
       /\ Numbers(Reading(ReadKeysymModifiers))
    <2>1. /\ DOMAIN ReadKeysymEditing \subseteq Nat
          /\ DOMAIN ReadKeysymOther \subseteq Nat
          /\ DOMAIN ReadKeysymCluster \subseteq Nat
          /\ DOMAIN ReadKeysymModifiers \subseteq Nat
        BY DEF ReadKeysymEditing, Row, ENTER, ReadKeysymOther, SEMICOLON,
           ReadKeysymCluster, INSERT, ReadKeysymModifiers, LCTRL
    <2> QED BY <2>1, ReadingNumbers
<1> QED BY <1>1, <1>2, <1>3, <1>4, <1>5, <1>6, <1>7, <1>8, <1>9, <1>10,
          ArmsReadBack, ArmsNumbers DEF keysym_to_hid

\* No two usages have the same code in hid_to_win_scan.
LEMMA ScanOneToOne == OneToOne(hid_to_win_scan, {})
<1>1. /\ OneToOne(ScanLetters, {}) /\ OneToOne(ScanDigits, {})
      /\ OneToOne(ScanEditing, {}) /\ OneToOne(ScanOther, {})
      /\ OneToOne(ScanMenu, {}) /\ OneToOne(ScanModifiers, {})
    BY DEF OneToOne, ScanLetters, Row, KEY_A, LETTER_SCANCODES, ScanDigits,
       KEY_1, DIGIT_SCANCODES, ScanEditing, ENTER, ScanOther, SEMICOLON,
       Extended, ScanMenu, APPLICATION, ScanModifiers, LCTRL
<1>2. Apart(ScanLetters, ScanDigits, {})
    BY DEF Apart, ScanLetters, Row, KEY_A, LETTER_SCANCODES, ScanDigits, KEY_1,
       DIGIT_SCANCODES
<1>3. Apart(ScanLetters ++ ScanDigits, ScanEditing, {})
    <2>1. /\ Apart(ScanLetters, ScanEditing, {})
          /\ Apart(ScanDigits, ScanEditing, {})
        BY DEF Apart, ScanLetters, Row, KEY_A, LETTER_SCANCODES, ScanDigits,
           KEY_1, DIGIT_SCANCODES, ScanEditing, ENTER
    <2> QED BY <2>1, ArmsApart
<1>4. Apart(ScanLetters ++ ScanDigits ++ ScanEditing, ScanOther, {})
    <2>1. /\ Apart(ScanLetters, ScanOther, {})
          /\ Apart(ScanDigits, ScanOther, {})
          /\ Apart(ScanEditing, ScanOther, {})
        BY DEF Apart, ScanLetters, Row, KEY_A, LETTER_SCANCODES, ScanDigits,
           KEY_1, DIGIT_SCANCODES, ScanEditing, ENTER, ScanOther, SEMICOLON,
           Extended
    <2> QED BY <2>1, ArmsApart
<1>5. Apart(ScanLetters ++ ScanDigits ++ ScanEditing ++ ScanOther, ScanMenu, {})
    <2>1. /\ Apart(ScanLetters, ScanMenu, {}) /\ Apart(ScanDigits, ScanMenu, {})
          /\ Apart(ScanEditing, ScanMenu, {}) /\ Apart(ScanOther, ScanMenu, {})
        BY DEF Apart, ScanLetters, Row, KEY_A, LETTER_SCANCODES, ScanDigits,
           KEY_1, DIGIT_SCANCODES, ScanEditing, ENTER, ScanOther, SEMICOLON,
           Extended, ScanMenu, APPLICATION
    <2> QED BY <2>1, ArmsApart
<1>6. Apart(ScanLetters ++ ScanDigits ++ ScanEditing ++ ScanOther ++ ScanMenu,
           ScanModifiers, {})
    <2>1. /\ Apart(ScanLetters, ScanModifiers, {})
          /\ Apart(ScanDigits, ScanModifiers, {})
          /\ Apart(ScanEditing, ScanModifiers, {})
          /\ Apart(ScanOther, ScanModifiers, {})
          /\ Apart(ScanMenu, ScanModifiers, {})
        BY DEF Apart, ScanLetters, Row, KEY_A, LETTER_SCANCODES, ScanDigits,
           KEY_1, DIGIT_SCANCODES, ScanEditing, ENTER, ScanOther, SEMICOLON,
           Extended, ScanMenu, APPLICATION, ScanModifiers, LCTRL
    <2> QED BY <2>1, ArmsApart
<1> QED BY <1>1, <1>2, <1>3, <1>4, <1>5, <1>6, ArmsOneToOne DEF hid_to_win_scan

LEMMA ScanNumbers == Numbers(hid_to_win_scan)
<1>1. /\ Numbers(ScanLetters) /\ Numbers(ScanDigits) /\ Numbers(ScanEditing)
      /\ Numbers(ScanOther) /\ Numbers(ScanMenu) /\ Numbers(ScanModifiers)
    BY DEF Numbers, ScanLetters, Row, KEY_A, LETTER_SCANCODES, ScanDigits,
       KEY_1, DIGIT_SCANCODES, ScanEditing, ENTER, ScanOther, SEMICOLON,
       Extended, ScanMenu, APPLICATION, ScanModifiers, LCTRL
<1> QED BY <1>1, ArmsNumbers DEF hid_to_win_scan

\* Nor in hid_to_win_vk, but for the Enter key of the keypad.
LEMMA VkOneToOne == OneToOne(hid_to_win_vk, {KP_ENTER})
<1>1. /\ OneToOne(VkLetters, {KP_ENTER}) /\ OneToOne(VkDigits, {KP_ENTER})
      /\ OneToOne(VkEditing, {KP_ENTER}) /\ OneToOne(VkOther, {KP_ENTER})
      /\ OneToOne(VkMenu, {KP_ENTER}) /\ OneToOne(VkModifiers, {KP_ENTER})
    BY DEF OneToOne, VkLetters, Letters, KEY_A, VkDigits, Digits, KEY_0, KEY_1,
       VkEditing, Row, ENTER, VkOther, SEMICOLON, VkMenu, APPLICATION,
       VkModifiers, LCTRL, KP_ENTER
<1>2. Apart(VkLetters, VkDigits, {KP_ENTER})
    BY DEF Apart, VkLetters, Letters, KEY_A, VkDigits, Digits, KEY_0, KEY_1,
       KP_ENTER
<1>3. Apart(VkLetters ++ VkDigits, VkEditing, {KP_ENTER})
    <2>1. /\ Apart(VkLetters, VkEditing, {KP_ENTER})
          /\ Apart(VkDigits, VkEditing, {KP_ENTER})
        BY DEF Apart, VkLetters, Letters, KEY_A, VkDigits, Digits, KEY_0, KEY_1,
           VkEditing, Row, ENTER, KP_ENTER
    <2> QED BY <2>1, ArmsApart
<1>4. Apart(VkLetters ++ VkDigits ++ VkEditing, VkOther, {KP_ENTER})
    <2>1. /\ Apart(VkLetters, VkOther, {KP_ENTER})
          /\ Apart(VkDigits, VkOther, {KP_ENTER})
          /\ Apart(VkEditing, VkOther, {KP_ENTER})
        BY DEF Apart, VkLetters, Letters, KEY_A, VkDigits, Digits, KEY_0, KEY_1,
           VkEditing, Row, ENTER, VkOther, SEMICOLON, KP_ENTER
    <2> QED BY <2>1, ArmsApart
<1>5. Apart(VkLetters ++ VkDigits ++ VkEditing ++ VkOther, VkMenu, {KP_ENTER})
    <2>1. /\ Apart(VkLetters, VkMenu, {KP_ENTER})
          /\ Apart(VkDigits, VkMenu, {KP_ENTER})
          /\ Apart(VkEditing, VkMenu, {KP_ENTER})
          /\ Apart(VkOther, VkMenu, {KP_ENTER})
        BY DEF Apart, VkLetters, Letters, KEY_A, VkDigits, Digits, KEY_0, KEY_1,
           VkEditing, Row, ENTER, VkOther, SEMICOLON, VkMenu, APPLICATION,
           KP_ENTER
    <2> QED BY <2>1, ArmsApart
<1>6. Apart(VkLetters ++ VkDigits ++ VkEditing ++ VkOther ++ VkMenu,
           VkModifiers, {KP_ENTER})
    <2>1. /\ Apart(VkLetters, VkModifiers, {KP_ENTER})
          /\ Apart(VkDigits, VkModifiers, {KP_ENTER})
          /\ Apart(VkEditing, VkModifiers, {KP_ENTER})
          /\ Apart(VkOther, VkModifiers, {KP_ENTER})
          /\ Apart(VkMenu, VkModifiers, {KP_ENTER})
        BY DEF Apart, VkLetters, Letters, KEY_A, VkDigits, Digits, KEY_0, KEY_1,
           VkEditing, Row, ENTER, VkOther, SEMICOLON, VkMenu, APPLICATION,
           VkModifiers, LCTRL, KP_ENTER
    <2> QED BY <2>1, ArmsApart
<1> QED BY <1>1, <1>2, <1>3, <1>4, <1>5, <1>6, ArmsOneToOne DEF hid_to_win_vk

LEMMA VkNumbers == Numbers(hid_to_win_vk)
<1>1. /\ Numbers(VkLetters) /\ Numbers(VkDigits) /\ Numbers(VkEditing)
      /\ Numbers(VkOther) /\ Numbers(VkMenu) /\ Numbers(VkModifiers)
    BY DEF Numbers, VkLetters, Letters, KEY_A, VkDigits, Digits, KEY_0, KEY_1,
       VkEditing, Row, ENTER, VkOther, SEMICOLON, VkMenu, APPLICATION,
       VkModifiers, LCTRL
<1> QED BY <1>1, ArmsNumbers DEF hid_to_win_vk

LEMMA VkDomains ==
    /\ DOMAIN VkLetters = 4 .. 29 /\ DOMAIN VkDigits = 30 .. 39
    /\ DOMAIN VkEditing = 40 .. 49 /\ DOMAIN VkOther = 51 .. 99
    /\ DOMAIN VkMenu = {101} /\ DOMAIN VkModifiers = 224 .. 231
BY DEF VkLetters, Letters, KEY_A, VkDigits, Digits, KEY_0, KEY_1, VkEditing,
   Row, ENTER, VkOther, SEMICOLON, VkMenu, APPLICATION, VkModifiers, LCTRL

\* vk_to_hid undoes hid_to_win_vk, but for that key.
LEMMA VkRead ==
    ReadsBack(vk_to_hid, hid_to_win_vk, {KP_ENTER}) /\ Numbers(vk_to_hid)
<1>1. ReadsBack(UpperCase, hid_to_win_vk, {KP_ENTER})
    <2>1. /\ ReadsBack(UpperCase, VkLetters, {KP_ENTER})
          /\ ReadsBack(UpperCase, VkDigits, {KP_ENTER})
          /\ ReadsBack(UpperCase, VkEditing, {KP_ENTER})
          /\ ReadsBack(UpperCase, VkOther, {KP_ENTER})
          /\ ReadsBack(UpperCase, VkMenu, {KP_ENTER})
          /\ ReadsBack(UpperCase, VkModifiers, {KP_ENTER})
        BY DEF ReadsBack, UpperCase, KEY_A, VkLetters, Letters, VkDigits,
           Digits, KEY_0, KEY_1, VkEditing, Row, ENTER, VkOther, SEMICOLON,
           VkMenu, APPLICATION, VkModifiers, LCTRL, KP_ENTER
    <2> QED BY <2>1, ReadsBackArms DEF hid_to_win_vk
<1>2. ReadsBack(Zero, hid_to_win_vk, {KP_ENTER})
    <2>1. /\ ReadsBack(Zero, VkLetters, {KP_ENTER})
          /\ ReadsBack(Zero, VkDigits, {KP_ENTER})
          /\ ReadsBack(Zero, VkEditing, {KP_ENTER})
          /\ ReadsBack(Zero, VkOther, {KP_ENTER})
          /\ ReadsBack(Zero, VkMenu, {KP_ENTER})
          /\ ReadsBack(Zero, VkModifiers, {KP_ENTER})
        BY DEF ReadsBack, Zero, KEY_0, VkLetters, Letters, KEY_A, VkDigits,
           Digits, KEY_1, VkEditing, Row, ENTER, VkOther, SEMICOLON, VkMenu,
           APPLICATION, VkModifiers, LCTRL, KP_ENTER
    <2> QED BY <2>1, ReadsBackArms DEF hid_to_win_vk
<1>3. ReadsBack(OneToNine, hid_to_win_vk, {KP_ENTER})
    <2>1. /\ ReadsBack(OneToNine, VkLetters, {KP_ENTER})
          /\ ReadsBack(OneToNine, VkDigits, {KP_ENTER})
          /\ ReadsBack(OneToNine, VkEditing, {KP_ENTER})
          /\ ReadsBack(OneToNine, VkOther, {KP_ENTER})
          /\ ReadsBack(OneToNine, VkMenu, {KP_ENTER})
          /\ ReadsBack(OneToNine, VkModifiers, {KP_ENTER})
        BY DEF ReadsBack, OneToNine, KEY_1, VkLetters, Letters, KEY_A, VkDigits,
           Digits, KEY_0, VkEditing, Row, ENTER, VkOther, SEMICOLON, VkMenu,
           APPLICATION, VkModifiers, LCTRL, KP_ENTER
    <2> QED BY <2>1, ReadsBackArms DEF hid_to_win_vk
<1>4. ReadsBack(Reading(ReadVkEditing), hid_to_win_vk, {KP_ENTER})
    <2>1. Part(ReadVkEditing, VkEditing) /\ KP_ENTER \notin DOMAIN ReadVkEditing
        BY DEF Part, ReadVkEditing, Row, ENTER, VkEditing, KP_ENTER
    <2>2. DOMAIN (VkLetters ++ VkDigits) \cap DOMAIN ReadVkEditing = {}
        BY <2>1, VkDomains DEF ++, Part
    <2>3. Part(ReadVkEditing, hid_to_win_vk)
        BY <2>1, <2>2, ArmsPart DEF hid_to_win_vk
    <2> QED BY <2>1, <2>3, VkOneToOne, RowReadsBack
<1>5. ReadsBack(Reading(ReadVkOther), hid_to_win_vk, {KP_ENTER})
    <2>1. Part(ReadVkOther, VkOther) /\ KP_ENTER \notin DOMAIN ReadVkOther
        BY DEF Part, ReadVkOther, Row, SEMICOLON, VkOther, KP_ENTER
    <2>2. DOMAIN (VkLetters ++ VkDigits ++ VkEditing) \cap DOMAIN ReadVkOther =
                  {}
        BY <2>1, VkDomains DEF ++, Part
    <2>3. Part(ReadVkOther, hid_to_win_vk)
        BY <2>1, <2>2, ArmsPart DEF hid_to_win_vk
    <2> QED BY <2>1, <2>3, VkOneToOne, RowReadsBack
<1>6. ReadsBack(Reading(ReadVkModifiers), hid_to_win_vk, {KP_ENTER})
    <2>1. Part(ReadVkModifiers, VkModifiers) /\ KP_ENTER \notin DOMAIN ReadVkModifiers
        BY DEF Part, ReadVkModifiers, Row, LCTRL, VkModifiers, KP_ENTER
    <2>2. DOMAIN (VkLetters ++ VkDigits ++ VkEditing ++ VkOther ++ VkMenu) \cap
                  DOMAIN ReadVkModifiers = {}
        BY <2>1, VkDomains DEF ++, Part
    <2>3. Part(ReadVkModifiers, hid_to_win_vk)
        BY <2>1, <2>2, ArmsPart DEF hid_to_win_vk
    <2> QED BY <2>1, <2>3, VkOneToOne, RowReadsBack
<1>7. /\ Numbers(UpperCase) /\ Numbers(Zero) /\ Numbers(OneToNine)
    BY DEF Numbers, UpperCase, KEY_A, Zero, KEY_0, OneToNine, KEY_1
<1>8. /\ Numbers(Reading(ReadVkEditing)) /\ Numbers(Reading(ReadVkOther))
      /\ Numbers(Reading(ReadVkModifiers))
    <2>1. /\ DOMAIN ReadVkEditing \subseteq Nat
          /\ DOMAIN ReadVkOther \subseteq Nat
          /\ DOMAIN ReadVkModifiers \subseteq Nat
        BY DEF ReadVkEditing, Row, ENTER, ReadVkOther, SEMICOLON,
           ReadVkModifiers, LCTRL
    <2> QED BY <2>1, ReadingNumbers
<1> QED BY <1>1, <1>2, <1>3, <1>4, <1>5, <1>6, <1>7, <1>8, ArmsReadBack,
          ArmsNumbers DEF vk_to_hid

\* No two usages have the same code in hid_to_mac.
LEMMA MacOneToOne == OneToOne(hid_to_mac, {})
<1>1. /\ OneToOne(MacTyping, {}) /\ OneToOne(MacOther, {})
      /\ OneToOne(MacCluster, {}) /\ OneToOne(MacModifiers, {})
    BY DEF OneToOne, MacTyping, Row, KEY_A, MacOther, SEMICOLON, MacCluster,
       INSERT, MacModifiers, LCTRL
<1>2. Apart(MacTyping, MacOther, {})
    BY DEF Apart, MacTyping, Row, KEY_A, MacOther, SEMICOLON
<1>3. Apart(MacTyping ++ MacOther, MacCluster, {})
    <2>1. /\ Apart(MacTyping, MacCluster, {}) /\ Apart(MacOther, MacCluster, {})
        BY DEF Apart, MacTyping, Row, KEY_A, MacOther, SEMICOLON, MacCluster,
           INSERT
    <2> QED BY <2>1, ArmsApart
<1>4. Apart(MacTyping ++ MacOther ++ MacCluster, MacModifiers, {})
    <2>1. /\ Apart(MacTyping, MacModifiers, {})
          /\ Apart(MacOther, MacModifiers, {})
          /\ Apart(MacCluster, MacModifiers, {})
        BY DEF Apart, MacTyping, Row, KEY_A, MacOther, SEMICOLON, MacCluster,
           INSERT, MacModifiers, LCTRL
    <2> QED BY <2>1, ArmsApart
<1> QED BY <1>1, <1>2, <1>3, <1>4, ArmsOneToOne DEF hid_to_mac

LEMMA MacNumbers == Numbers(hid_to_mac)
<1>1. /\ Numbers(MacTyping) /\ Numbers(MacOther) /\ Numbers(MacCluster)
      /\ Numbers(MacModifiers)
    BY DEF Numbers, MacTyping, Row, KEY_A, MacOther, SEMICOLON, MacCluster,
       INSERT, MacModifiers, LCTRL
<1> QED BY <1>1, ArmsNumbers DEF hid_to_mac

LEMMA MacDomains ==
    /\ DOMAIN MacTyping = 4 .. 49 /\ DOMAIN MacOther = 51 .. 69
    /\ DOMAIN MacCluster = 73 .. 82 /\ DOMAIN MacModifiers = 224 .. 231
BY DEF MacTyping, Row, KEY_A, MacOther, SEMICOLON, MacCluster, INSERT,
   MacModifiers, LCTRL

\* mac_to_hid undoes hid_to_mac.
LEMMA MacRead == ReadsBack(mac_to_hid, hid_to_mac, {}) /\ Numbers(mac_to_hid)
<1>1. ReadsBack(Reading(ReadMacTyping), hid_to_mac, {})
    <2>1. Part(ReadMacTyping, MacTyping)
        BY DEF Part, ReadMacTyping, Row, KEY_A, MacTyping
    <2>2. Part(ReadMacTyping, hid_to_mac)
        BY <2>1, ArmsPart DEF hid_to_mac
    <2> QED BY <2>1, <2>2, MacOneToOne, RowReadsBack
<1>2. ReadsBack(Reading(ReadMacOther), hid_to_mac, {})
    <2>1. Part(ReadMacOther, MacOther)
        BY DEF Part, ReadMacOther, Row, SEMICOLON, MacOther
    <2>2. DOMAIN (MacTyping) \cap DOMAIN ReadMacOther = {}
        BY <2>1, MacDomains DEF ++, Part
    <2>3. Part(ReadMacOther, hid_to_mac)
        BY <2>1, <2>2, ArmsPart DEF hid_to_mac
    <2> QED BY <2>1, <2>3, MacOneToOne, RowReadsBack
<1>3. ReadsBack(Reading(ReadMacCluster), hid_to_mac, {})
    <2>1. Part(ReadMacCluster, MacCluster)
        BY DEF Part, ReadMacCluster, Row, INSERT, MacCluster
    <2>2. DOMAIN (MacTyping ++ MacOther) \cap DOMAIN ReadMacCluster = {}
        BY <2>1, MacDomains DEF ++, Part
    <2>3. Part(ReadMacCluster, hid_to_mac)
        BY <2>1, <2>2, ArmsPart DEF hid_to_mac
    <2> QED BY <2>1, <2>3, MacOneToOne, RowReadsBack
<1>4. ReadsBack(Reading(ReadMacModifiers), hid_to_mac, {})
    <2>1. Part(ReadMacModifiers, MacModifiers)
        BY DEF Part, ReadMacModifiers, Row, LCTRL, MacModifiers
    <2>2. DOMAIN (MacTyping ++ MacOther ++ MacCluster) \cap DOMAIN
                  ReadMacModifiers = {}
        BY <2>1, MacDomains DEF ++, Part
    <2>3. Part(ReadMacModifiers, hid_to_mac)
        BY <2>1, <2>2, ArmsPart DEF hid_to_mac
    <2> QED BY <2>1, <2>3, MacOneToOne, RowReadsBack
<1>5. /\ Numbers(Reading(ReadMacTyping)) /\ Numbers(Reading(ReadMacOther))
      /\ Numbers(Reading(ReadMacCluster)) /\ Numbers(Reading(ReadMacModifiers))
    <2>1. /\ DOMAIN ReadMacTyping \subseteq Nat
          /\ DOMAIN ReadMacOther \subseteq Nat
          /\ DOMAIN ReadMacCluster \subseteq Nat
          /\ DOMAIN ReadMacModifiers \subseteq Nat
        BY DEF ReadMacTyping, Row, KEY_A, ReadMacOther, SEMICOLON,
           ReadMacCluster, INSERT, ReadMacModifiers, LCTRL
    <2> QED BY <2>1, ReadingNumbers
<1> QED BY <1>1, <1>2, <1>3, <1>4, <1>5, ArmsReadBack, ArmsNumbers DEF
          mac_to_hid

\* What the tables translate to is a number.
LEMMA Tables ==
    /\ \A p \in Platforms : \A u \in DOMAIN Heard[p] : Heard[p][u] \in Nat
    /\ \A p \in Emitters : \A u \in DOMAIN Typed[p] : Typed[p][u] \in Nat
<1>1. \A p \in Platforms : Numbers(Reads[p])
    BY KeysymRead, VkRead, MacRead DEF Platforms, Reads
<1>2. \A p \in Platforms : Numbers(Heard[p])
    BY <1>1 DEF Numbers, Heard
<1>3. Numbers(Typed["none"])
    BY EmptySeq DEF Numbers, Typed
<1>4. \A p \in Emitters : Numbers(Typed[p])
    BY <1>3, KeysymNumbers, ScanNumbers, MacNumbers DEF Emitters, Platforms, Typed
<1> QED BY <1>2, <1>4 DEF Numbers

\* A key is heard as itself, but for the one Windows does not tell from Enter.
LEMMA KeysAreHeard ==
    \A p \in Platforms :
        Misheard[p] \subseteq (IF p = "windows" THEN {KP_ENTER} ELSE {})
<1>1. ASSUME NEW p \in Platforms, NEW S, ReadsBack(Reads[p], Reported[p], S)
      PROVE  Misheard[p] \subseteq S
    BY <1>1 DEF ReadsBack, Misheard, Heard
<1>2. /\ ReadsBack(Reads["x11"], Reported["x11"], {})
      /\ ReadsBack(Reads["windows"], Reported["windows"], {KP_ENTER})
      /\ ReadsBack(Reads["macos"], Reported["macos"], {})
    BY KeysymRead, VkRead, MacRead DEF Reads, Reported
<1> QED BY <1>1, <1>2 DEF Platforms

\* No two usages are typed with one native key.
LEMMA KeysAreTold == \A p \in Emitters : Confused[p] = {}
<1>1. ASSUME NEW p \in Emitters, OneToOne(Typed[p], {})
      PROVE  Confused[p] = {}
    BY <1>1 DEF OneToOne, Confused
<1>2. OneToOne(Typed["none"], {})
    BY EmptySeq DEF OneToOne, Typed
<1>3. \A p \in Emitters : OneToOne(Typed[p], {})
    BY <1>2, KeysymOneToOne, ScanOneToOne, MacOneToOne DEF Emitters, Platforms, Typed
<1> QED BY <1>1, <1>3

-------------------------------------------------------------------------------
(* Following, when the sequence moves on.                                   *)

\* A frame joins the sequence and says it, or says nothing of c.
LEMMA FollowsAppend ==
    ASSUME NEW q, NEW n \in Nat, NEW X, NEW c, NEW S, NEW H, NEW i, NEW A, NEW B,
           NEW r, Follows(q, n, X, c, S, H, i, A),
           \A k \in 1 .. n : r[k] = q[k],
           r[n + 1] \in X => (r[n + 1].pressed <=> i \in B),
           r[n + 1] \notin X => (i \in A <=> i \in B)
    PROVE  Follows(r, n + 1, X, c, S, H, i, B)
<1>1. ASSUME NEW k \in 1 .. n + 1, r[k] \in X,
             \A j \in k + 1 .. n + 1 : r[j] \notin X
      PROVE  r[k].pressed <=> i \in B
    <2>1. CASE k = n + 1
        BY <1>1, <2>1
    <2>2. CASE k # n + 1
        <3>1. k \in 1 .. n /\ n + 1 \in k + 1 .. n + 1
            BY <2>2
        <3>2. \A j \in k + 1 .. n : j \in k + 1 .. n + 1 /\ j \in 1 .. n
            BY <3>1
        <3>3. q[k] \in X /\ \A j \in k + 1 .. n : q[j] \notin X
            BY <1>1, <3>1, <3>2
        <3>4. q[k].pressed <=> i \in A
            BY <3>1, <3>3 DEF Follows
        <3>5. i \in A <=> i \in B
            BY <1>1, <3>1
        <3> QED BY <3>1, <3>4, <3>5
    <2> QED BY <2>1, <2>2
<1>2. ASSUME c \in S, \A k \in 1 .. n + 1 : r[k] \notin X
      PROVE  c \in H <=> i \in B
    <2>1. n + 1 \in 1 .. n + 1 /\ \A k \in 1 .. n : k \in 1 .. n + 1
        OBVIOUS
    <2>2. r[n + 1] \notin X /\ \A k \in 1 .. n : q[k] \notin X
        BY <1>2, <2>1
    <2> QED BY <1>2, <2>2 DEF Follows
<1> QED BY <1>1, <1>2 DEF Follows

\* The same frames under other names, or the same set in another.
LEMMA FollowsSame ==
    ASSUME NEW q, NEW n \in Nat, NEW X, NEW c, NEW S, NEW H, NEW i, NEW A, NEW B,
           NEW r, Follows(q, n, X, c, S, H, i, A),
           \A k \in 1 .. n : r[k] = q[k], i \in A <=> i \in B
    PROVE  Follows(r, n, X, c, S, H, i, B)
<1>1. ASSUME NEW k \in 1 .. n, r[k] \in X, \A j \in k + 1 .. n : r[j] \notin X
      PROVE  r[k].pressed <=> i \in B
    <2>1. \A j \in k + 1 .. n : j \in 1 .. n
        OBVIOUS
    <2>2. q[k] \in X /\ \A j \in k + 1 .. n : q[j] \notin X
        BY <1>1, <2>1
    <2> QED BY <2>2 DEF Follows
<1> QED BY <1>1 DEF Follows

\* The first d frames are lost, and with them all that was emitted.
LEMMA FollowsCut ==
    ASSUME NEW q, NEW n \in Nat, NEW d \in Nat, NEW X, NEW c, NEW S, NEW H, NEW T,
           NEW G, NEW i, NEW A, NEW r, Follows(q, n + d, X, c, S, H, i, A),
           \A k \in 1 .. n : r[k] = q[k + d], c \notin T
    PROVE  Follows(r, n, X, c, T, G, i, A)
<1>1. ASSUME NEW k \in 1 .. n, r[k] \in X, \A j \in k + 1 .. n : r[j] \notin X
      PROVE  r[k].pressed <=> i \in A
    <2>1. k + d \in 1 .. n + d /\ q[k + d] \in X
        BY <1>1
    <2>2. ASSUME NEW j \in (k + d) + 1 .. n + d PROVE q[j] \notin X
        <3>1. j - d \in k + 1 .. n /\ j - d \in 1 .. n /\ (j - d) + d = j
            BY <2>2
        <3> QED BY <1>1, <3>1
    <2>3. q[k + d].pressed <=> i \in A
        BY <2>1, <2>2 DEF Follows
    <2> QED BY <2>3
<1> QED BY <1>1 DEF Follows

\* The first frame is taken; c follows it, or does not count as emitted.
LEMMA FollowsEmit ==
    ASSUME NEW q, NEW n \in Nat, NEW X, NEW c, NEW S, NEW H, NEW T, NEW G, NEW i,
           NEW A, NEW r, Follows(q, n + 1, X, c, S, H, i, A),
           \A k \in 1 .. n : r[k] = q[k + 1],
           q[1] \in X => (c \in T => (c \in G <=> q[1].pressed)),
           q[1] \notin X => (c \in T => c \in S) /\ (c \in G <=> c \in H)
    PROVE  Follows(r, n, X, c, T, G, i, A)
<1>1. ASSUME NEW k \in 1 .. n, r[k] \in X, \A j \in k + 1 .. n : r[j] \notin X
      PROVE  r[k].pressed <=> i \in A
    <2>1. k + 1 \in 1 .. n + 1 /\ q[k + 1] \in X
        BY <1>1
    <2>2. ASSUME NEW j \in (k + 1) + 1 .. n + 1 PROVE q[j] \notin X
        <3>1. j - 1 \in k + 1 .. n /\ j - 1 \in 1 .. n /\ (j - 1) + 1 = j
            BY <2>2
        <3> QED BY <1>1, <3>1
    <2>3. q[k + 1].pressed <=> i \in A
        BY <2>1, <2>2 DEF Follows
    <2> QED BY <2>3
<1>2. ASSUME c \in T, \A k \in 1 .. n : r[k] \notin X
      PROVE  c \in G <=> i \in A
    <2>1. \A j \in 2 .. n + 1 : q[j] \notin X
        <3>1. TAKE j \in 2 .. n + 1
        <3>2. j - 1 \in 1 .. n /\ (j - 1) + 1 = j
            OBVIOUS
        <3> QED BY <1>2, <3>2
    <2>2. CASE q[1] \in X
        <3>1. 1 \in 1 .. n + 1 /\ \A j \in 1 + 1 .. n + 1 : q[j] \notin X
            BY <2>1
        <3>2. q[1].pressed <=> i \in A
            BY <2>2, <3>1 DEF Follows
        <3> QED BY <1>2, <2>2, <3>2
    <2>3. CASE q[1] \notin X
        <3>1. \A k \in 1 .. n + 1 : k = 1 \/ k \in 2 .. n + 1
            OBVIOUS
        <3>2. \A k \in 1 .. n + 1 : q[k] \notin X
            BY <2>1, <2>3, <3>1
        <3> QED BY <1>2, <2>3, <3>2 DEF Follows
    <2> QED BY <2>2, <2>3
<1> QED BY <1>1, <1>2 DEF Follows
-------------------------------------------------------------------------------
(* What the capture makes of an input, and what that moves on a spoke.      *)

LEMMA SetOfBoth ==
    ASSUME NEW S, NEW a \in Seq(S), NEW b \in Seq(S)
    PROVE  ToSet(a \o b) = ToSet(a) \cup ToSet(b)
<1>1. /\ Len(a) \in Nat /\ Len(b) \in Nat
      /\ DOMAIN a = 1 .. Len(a) /\ DOMAIN b = 1 .. Len(b)
    OBVIOUS
<1>2. /\ Len(a \o b) = Len(a) + Len(b) /\ DOMAIN (a \o b) = 1 .. Len(a) + Len(b)
      /\ \A k \in 1 .. Len(a) + Len(b) :
            (a \o b)[k] = IF k <= Len(a) THEN a[k] ELSE b[k - Len(a)]
    BY ConcatProperties, LenProperties
<1>3. ASSUME NEW x \in ToSet(a \o b) PROVE x \in ToSet(a) \cup ToSet(b)
    <2>1. PICK k \in 1 .. Len(a) + Len(b) : x = (a \o b)[k]
        BY <1>2, <1>3 DEF ToSet
    <2>2. k <= Len(a) \/ k - Len(a) \in 1 .. Len(b)
        BY <1>1
    <2> QED BY <1>1, <1>2, <2>1, <2>2 DEF ToSet
<1>4. ASSUME NEW x \in ToSet(a) PROVE x \in ToSet(a \o b)
    <2>1. PICK k \in 1 .. Len(a) : x = a[k]
        BY <1>1, <1>4 DEF ToSet
    <2>2. k \in 1 .. Len(a) + Len(b) /\ (a \o b)[k] = x
        BY <1>1, <1>2, <2>1
    <2> QED BY <1>2, <2>2 DEF ToSet
<1>5. ASSUME NEW x \in ToSet(b) PROVE x \in ToSet(a \o b)
    <2>1. PICK k \in 1 .. Len(b) : x = b[k]
        BY <1>1, <1>5 DEF ToSet
    <2>2. k + Len(a) \in 1 .. Len(a) + Len(b) /\ (a \o b)[k + Len(a)] = x
        BY <1>1, <1>2, <2>1
    <2> QED BY <1>2, <2>2 DEF ToSet
<1> QED BY <1>3, <1>4, <1>5

\* The constants are what they should be.
LEMMA Machines ==
    ASSUME TypeOK
    PROVE  /\ hub \in Platforms /\ os \in [Spokes -> Emitters]
           /\ \A i \in Inputs : \/ i = <<"key", i[2]>> /\ i[1] = "key" /\ i[2] \in Keys
                                \/ i = <<"button", i[2]>> /\ i[1] = "button" /\ i[2] \in Buttons
           /\ Buttons \subseteq Nat
<1>1. <<hub, os>> \in Platforms \X [Spokes -> Emitters]
    BY InputAssumption DEF TypeOK
<1> QED BY <1>1, InputAssumption DEF Inputs

LEMMA KeysSent ==
    ASSUME TypeOK, NEW u \in Nat, NEW p \in BOOLEAN
    PROVE  Key(u, p) \in Sent /\ Masked(u, p) \subseteq Modifiers
BY DEF TypeOK, Key, Masked, After, Sent, Events

LEMMA ButtonsSent ==
    ASSUME NEW n \in Nat, NEW p \in BOOLEAN
    PROVE  /\ ~ p \/ n \notin Wheels => Button(n, p) \in Sent
           /\ Scroll(n) \in Sent
BY DEF Button, Scroll, Sent, Events

\* An input is one frame or none, and the frame says what happened to it.
Says(e, i, p) ==
    /\ e.kind # "scroll" => (e.pressed <=> p)
    /\ e.kind = "key" <=> i[1] = "key"
    /\ e.kind = "key" => e.mask = Masked(e.code, p)

\* What input i moves on s, whatever the mask is.
Moves(s, i) ==
    IF hub = "macos" THEN {}
    ELSE IF i[1] = "key"
    THEN IF i[2] \in DOMAIN Heard[hub] THEN KeyOf(s, Heard[hub][i[2]]) ELSE {}
    ELSE IF hub = "x11" \/ i[2] \in Named THEN ButtonOf(s, i[2]) ELSE {}

LEMMA Captured ==
    ASSUME TypeOK, NEW i \in Inputs, NEW p \in BOOLEAN
    PROVE  \/ /\ InputEvents(i, p) = <<>>
              /\ \A s \in Spokes : Moves(s, i) = {}
           \/ \E e \in Sent :
                 /\ InputEvents(i, p) = <<e>> /\ Says(e, i, p)
                 /\ \A s \in Spokes : Pressed(s, e) \subseteq Moves(s, i)
                 /\ i \in Pressable \/ ~p =>
                       \A s \in Spokes : Pressed(s, e) = Moves(s, i)
<1>1. CASE hub = "macos"
    BY <1>1 DEF InputEvents, Moves
<1>2. CASE hub # "macos" /\ i[1] = "key"
    <2>1. CASE i[2] \in DOMAIN Heard[hub]
        <3>1. Heard[hub][i[2]] \in Nat
            BY <2>1, Machines, Tables
        <3>2. PICK u \in Nat : u = Heard[hub][i[2]]
            BY <3>1
        <3>3. InputEvents(i, p) = <<Key(u, p)>>
            BY <1>2, <2>1, <3>2 DEF InputEvents, KeyEvents
        <3>4. Key(u, p) \in Sent /\ Says(Key(u, p), i, p)
            BY <1>2, KeysSent DEF Says, Key
        <3>5. \A s \in Spokes : Pressed(s, Key(u, p)) = Moves(s, i)
            BY <1>2, <2>1, <3>2 DEF Pressed, Moves, Key
        <3> QED BY <3>3, <3>4, <3>5
    <2>2. CASE i[2] \notin DOMAIN Heard[hub]
        BY <1>2, <2>2 DEF InputEvents, KeyEvents, Moves
    <2> QED BY <2>1, <2>2
<1>3. CASE hub # "macos" /\ i[1] # "key"
    <2>1. i[1] = "button" /\ i[2] \in Buttons /\ i[2] \in Nat
          /\ (i \in Pressable <=> i[2] \notin Wheels)
        BY <1>3, Machines DEF Pressable
    <2>2. PICK n \in Nat : n = i[2]
        BY <2>1
    <2>3. ASSUME ~p \/ n \notin Wheels, InputEvents(i, p) = <<Button(n, p)>>, hub = "x11" \/ n \in Named
          PROVE  \E e \in Sent :
                    /\ InputEvents(i, p) = <<e>> /\ Says(e, i, p)
                    /\ \A s \in Spokes : Pressed(s, e) = Moves(s, i)
        <3>1. Button(n, p) \in Sent /\ Says(Button(n, p), i, p)
            BY <1>3, <2>3, ButtonsSent DEF Says, Button
        <3>2. \A s \in Spokes : Pressed(s, Button(n, p)) = Moves(s, i)
            BY <1>3, <2>2, <2>3 DEF Pressed, Moves, Button
        <3> QED BY <2>3, <3>1, <3>2
    <2>4. ASSUME InputEvents(i, p) = <<Scroll(n)>>
          PROVE  \E e \in Sent :
                    /\ InputEvents(i, p) = <<e>> /\ Says(e, i, p)
                    /\ \A s \in Spokes : Pressed(s, e) = {}
        <3>1. Scroll(n) \in Sent /\ Says(Scroll(n), i, p)
            BY <1>3, ButtonsSent DEF Says, Scroll
        <3>2. \A s \in Spokes : Pressed(s, Scroll(n)) = {}
            BY DEF Pressed, Scroll
        <3> QED BY <2>4, <3>1, <3>2
    <2>5. CASE hub = "x11"
        <3>1. CASE n \in Wheels /\ p
            <4>1. InputEvents(i, p) = <<Scroll(n)>>
                BY <1>3, <2>2, <2>5, <3>1 DEF InputEvents, X11Button
            <4>2. i \notin Pressable
                BY <2>1, <2>2, <3>1
            <4> QED BY <2>4, <3>1, <4>1, <4>2
        <3>2. CASE ~(n \in Wheels /\ p)
            <4>1. InputEvents(i, p) = <<Button(n, p)>>
                BY <1>3, <2>2, <2>5, <3>2 DEF InputEvents, X11Button
            <4> QED BY <2>3, <2>5, <3>2, <4>1
        <3> QED BY <3>1, <3>2
    <2>6. CASE hub # "x11"
        <3>1. CASE n \in Named
            <4>1. InputEvents(i, p) = <<Button(n, p)>>
                BY <1>3, <2>2, <2>6, <3>1 DEF InputEvents, WindowsButton
            <4>2. n \notin Wheels
                BY <3>1 DEF Named, Wheels, Left, Middle, Right
            <4> QED BY <2>3, <3>1, <4>1, <4>2
        <3>2. CASE n \notin Named
            <4>1. \A s \in Spokes : Moves(s, i) = {}
                BY <1>3, <2>2, <2>6, <3>2 DEF Moves
            <4>2. InputEvents(i, p) = <<>> \/ InputEvents(i, p) = <<Scroll(n)>>
                BY <1>3, <2>2, <2>6, <3>2 DEF InputEvents, WindowsButton
            <4> QED BY <2>4, <4>1, <4>2
        <3> QED BY <3>1, <3>2
    <2> QED BY <2>5, <2>6
<1> QED BY <1>1, <1>2, <1>3

LEMMA Reached ==
    ASSUME TypeOK, NEW i \in Inputs, NEW s \in Spokes
    PROVE  Reaches(s, i) = Moves(s, i)
<1>1. ASSUME NEW p \in BOOLEAN
      PROVE  /\ InputEvents(i, p) \in Seq(Sent)
             /\ \A e \in ToSet(InputEvents(i, p)) : Pressed(s, e) \subseteq Moves(s, i)
             /\ ~p => \A c \in Moves(s, i) :
                         \E e \in ToSet(InputEvents(i, p)) : c \in Pressed(s, e)
    <2>1. ASSUME NEW S PROVE <<>> \in Seq(S) /\ ToSet(<<>>) = {}
        BY DEF ToSet
    <2>2. ASSUME NEW e PROVE <<e>> \in Seq({e}) /\ ToSet(<<e>>) = {e}
        BY DEF ToSet
    <2>3. CASE InputEvents(i, p) = <<>> /\ Moves(s, i) = {}
        BY <2>1, <2>3
    <2>4. ASSUME NEW e \in Sent, InputEvents(i, p) = <<e>>,
                 Pressed(s, e) \subseteq Moves(s, i), ~p => Pressed(s, e) = Moves(s, i)
          PROVE  /\ InputEvents(i, p) \in Seq(Sent)
                 /\ \A d \in ToSet(InputEvents(i, p)) : Pressed(s, d) \subseteq Moves(s, i)
                 /\ ~p => \A c \in Moves(s, i) :
                         \E d \in ToSet(InputEvents(i, p)) : c \in Pressed(s, d)
        <3>1. ToSet(<<e>>) = {e}
            BY <2>2
        <3>2. <<e>> \in Seq(Sent)
            OBVIOUS
        <3> QED BY <2>4, <3>1, <3>2
    <2>5. \/ InputEvents(i, p) = <<>> /\ Moves(s, i) = {}
          \/ \E e \in Sent : /\ InputEvents(i, p) = <<e>>
                             /\ Pressed(s, e) \subseteq Moves(s, i)
                             /\ ~p => Pressed(s, e) = Moves(s, i)
        BY Captured
    <2> QED BY <2>3, <2>4, <2>5
<1>2. ToSet(InputEvents(i, TRUE) \o InputEvents(i, FALSE))
      = ToSet(InputEvents(i, TRUE)) \cup ToSet(InputEvents(i, FALSE))
    BY <1>1, SetOfBoth
<1> QED BY <1>1, <1>2 DEF Reaches
-------------------------------------------------------------------------------
(* A step, seen from one spoke.                                             *)

AllReached == \A s \in Spokes, i \in Inputs : Reaches(s, i) = Moves(s, i)

LEMMA EveryReached == TypeOK => AllReached
BY Reached DEF AllReached

LEMMA ReachedKept ==
    ASSUME TypeOK, TypeOK', machines' = machines
    PROVE  \A s \in Spokes :
              /\ \A i \in Inputs : Reaches(s, i)' = Reaches(s, i)
              /\ \A i \in Inputs : \A c : Alone(s, i, c)' <=> Alone(s, i, c)
              /\ \A c : Touching(s, c)' = Touching(s, c)
              /\ \A m : KeyOf(s, m)' = KeyOf(s, m)
<1>1. AllReached
    BY EveryReached
<1>2. AllReached'
    BY EveryReached, PTL
<1>3. hub' = hub /\ os' = os
    BY DEF machines
<1>4. \A s \in Spokes, i \in Inputs : Moves(s, i)' = Moves(s, i)
    BY <1>3 DEF Moves, KeyOf, ButtonOf
<1>5. \A s \in Spokes, i \in Inputs : Reaches(s, i)' = Reaches(s, i)
    BY <1>1, <1>2, <1>4 DEF AllReached
<1>6. \A s \in Spokes : \A c : Touching(s, c)' = Touching(s, c)
    BY <1>3 DEF Touching, Pressed, KeyOf, ButtonOf
<1>7. \A s \in Spokes : \A m : KeyOf(s, m)' = KeyOf(s, m)
    BY <1>3 DEF KeyOf
<1>8. \A s \in Spokes : \A i \in Inputs : \A c : Alone(s, i, c)' <=> Alone(s, i, c)
    BY <1>5 DEF Alone
<1> QED BY <1>5, <1>6, <1>7, <1>8

\* What is on its way to s loses d frames, and what the rest said before, it
\* says now.
Onward(s, d) ==
    /\ Len(Pipe(s)') \in Nat /\ Len(Pipe(s)) = Len(Pipe(s)') + d
    /\ \A k \in 1 .. Len(Pipe(s)') : Pipe(s)'[k] = Pipe(s)[k + d]
    /\ \A n \in 0 .. Len(Pipe(s)') : \A c, i, A :
          Follows(Pipe(s), n + d, Touching(s, c), c, seen[s], held[s], i, A)
          => Follows(Pipe(s)', n, Touching(s, c), c, seen'[s], held'[s], i, A)

LEMMA ControlsTyped ==
    ASSUME TypeOK, NEW s \in Spokes
    PROVE  /\ \A e \in Sent : Pressed(s, e) \subseteq {"key", "button"} \X Nat
           /\ \A e \in Sent : e.kind = "key" \/ e.pressed => Pressed(s, e) \subseteq Controls
<1>1. os[s] \in Emitters
    BY Machines
<1>2. \A u : KeyOf(s, u) \subseteq Controls
    BY <1>1, Tables DEF KeyOf, Controls
<1>3. ASSUME NEW e \in Sent, e.kind = "button", e.pressed
      PROVE  Pressed(s, e) \subseteq Controls
    <2>1. e.code \in Nat \ Wheels
        BY <1>3 DEF Sent, Events
    <2>2. ButtonOf(s, e.code) \subseteq Controls
        BY <2>1 DEF ButtonOf, Controls, button_to_code, button_flags, mouse_event_type,
                    Wheels, Left, Middle, Right
    <2> QED BY <1>3, <2>2 DEF Pressed
<1>4. ASSUME NEW e \in Sent, e.kind = "button"
      PROVE  Pressed(s, e) \subseteq {"key", "button"} \X Nat
    <2>1. e.code \in Nat
        BY <1>4 DEF Sent, Events
    <2>2. ButtonOf(s, e.code) \subseteq {"key", "button"} \X Nat
        BY <2>1 DEF ButtonOf, button_to_code, button_flags, mouse_event_type,
                    Left, Middle, Right
    <2> QED BY <1>4, <2>2 DEF Pressed
<1>5. \A e \in Sent : e.kind = "key" => Pressed(s, e) \subseteq Controls
    BY <1>2 DEF Pressed
<1>6. \A e \in Sent : e.kind \notin {"key", "button"} => Pressed(s, e) = {}
    BY DEF Pressed
<1>7. Controls \subseteq {"key", "button"} \X Nat
    BY DEF Controls
<1> QED BY <1>3, <1>4, <1>5, <1>6, <1>7

LEMMA OnwardKeeps ==
    ASSUME Inv, TypeOK', machines' = machines, hubHeld' = hubHeld, mask' = mask,
           NEW s \in Spokes, NEW d \in Nat, Onward(s, d)
    PROVE  InputsOK(s)' /\ MasksOK(s)'
<1>1. TypeOK /\ InputsOK(s) /\ MasksOK(s)
    BY DEF Inv
<1>2. PICK q : q = Pipe(s)
    OBVIOUS
<1>3. PICK r : r = Pipe(s)'
    OBVIOUS
<1>4. /\ Len(r) \in Nat /\ Len(q) = Len(r) + d
      /\ \A k \in 1 .. Len(r) : r[k] = q[k + d]
      /\ \A n \in 0 .. Len(r) : \A c, i, A :
             Follows(q, n + d, Touching(s, c), c, seen[s], held[s], i, A)
             => Follows(r, n, Touching(s, c), c, seen'[s], held'[s], i, A)
    BY <1>2, <1>3 DEF Onward
<1>5. /\ \A i \in Inputs : Reaches(s, i)' = Reaches(s, i)
      /\ \A i \in Inputs : \A c : Alone(s, i, c)' <=> Alone(s, i, c)
      /\ \A c : Touching(s, c)' = Touching(s, c)
      /\ \A m : KeyOf(s, m)' = KeyOf(s, m)
    BY <1>1, ReachedKept
<1>6. ASSUME NEW i \in Pressable, NEW c \in Reaches(s, i), Alone(s, i, c)
      PROVE  InStep(s, c, i)'
    <2>1. Follows(q, Len(r) + d, Touching(s, c), c, seen[s], held[s], i, hubHeld)
        BY <1>1, <1>2, <1>4, <1>6 DEF InputsOK, InStep
    <2>2. Len(r) \in 0 .. Len(r)
        BY <1>4
    <2>3. Follows(r, Len(r), Touching(s, c), c, seen'[s], held'[s], i, hubHeld)
        BY <1>4, <2>1, <2>2
    <2> QED BY <1>3, <1>5, <2>3 DEF InStep
<1>7. ASSUME Confused[os[s]] = {}, NEW m \in Modifiers, NEW c \in KeyOf(s, m)
      PROVE  InMask(s, c, m)'
    <2>1. InMask(s, c, m)
        BY <1>1, <1>7 DEF MasksOK
    <2>2. Follows(r, Len(r), Touching(s, c), c, seen'[s], held'[s], m, mask)
        <3>1. Len(r) \in 0 .. Len(r)
            BY <1>4
        <3>2. Follows(q, Len(r) + d, Touching(s, c), c, seen[s], held[s], m, mask)
            BY <1>2, <1>4, <2>1 DEF InMask
        <3> QED BY <1>4, <3>1, <3>2
    <2>3. ASSUME NEW l \in 1 .. Len(r), r[l].kind = "key"
          PROVE  Follows(r, l, Touching(s, c), c, seen'[s], held'[s], m, r[l].mask)
        <3>1. l + d \in 1 .. Len(q) /\ l \in 0 .. Len(r) /\ r[l] = q[l + d]
            BY <1>4
        <3>2. Follows(q, l + d, Touching(s, c), c, seen[s], held[s], m, q[l + d].mask)
            BY <1>2, <2>1, <2>3, <3>1 DEF InMask
        <3> QED BY <1>4, <3>1, <3>2
    <2> QED BY <1>3, <1>5, <2>2, <2>3 DEF InMask
<1>8. InputsOK(s)'
    <2>1. Pressable \subseteq Inputs
        BY DEF Pressable
    <2>2. \A i \in Pressable : \A c \in Reaches(s, i)' : Alone(s, i, c)' => InStep(s, c, i)'
        BY <1>5, <1>6, <2>1
    <2> QED BY <2>2 DEF InputsOK
<1>9. MasksOK(s)'
    <2>1. os' = os
        BY DEF machines
    <2> QED BY <1>5, <1>7, <2>1 DEF MasksOK
<1> QED BY <1>8, <1>9
-------------------------------------------------------------------------------
(* The steps but Capture.                                                   *)

LEMMA PipeFacts ==
    ASSUME Kinds, NEW s \in Spokes
    PROVE  /\ frames[s] \in Seq(Sent) /\ captured \in Seq(Sent)
           /\ Len(frames[s]) \in Nat /\ Len(captured) \in Nat
           /\ Pipe(s) \in Seq(Sent) /\ Len(Pipe(s)) = Len(frames[s]) + Len(captured)
           /\ \A k \in 1 .. Len(frames[s]) + Len(captured) :
                 Pipe(s)[k] = IF k <= Len(frames[s]) THEN frames[s][k]
                              ELSE captured[k - Len(frames[s])]
<1>1. frames[s] \in Seq(Sent) /\ captured \in Seq(Sent)
    BY DEF Kinds
<1> QED BY <1>1, ConcatProperties, LenProperties DEF Pipe

\* Nothing changes for s.
LEMMA Stays ==
    ASSUME Kinds, NEW s \in Spokes, frames'[s] = frames[s], captured' = captured,
           seen'[s] = seen[s], held'[s] = held[s]
    PROVE  Onward(s, 0)
<1>1. Pipe(s)' = Pipe(s)
    BY DEF Pipe
<1>2. Len(Pipe(s)) \in Nat
    BY PipeFacts
<1>3. \A n \in 0 .. Len(Pipe(s)) : n + 0 = n
    OBVIOUS
<1> QED BY <1>1, <1>2, <1>3 DEF Onward

\* A session that ends, or does not exist: the first d frames never arrive.
LEMMA Loses ==
    ASSUME Kinds, Kinds', NEW s \in Spokes, NEW d \in Nat, seen'[s] = {},
           Len(Pipe(s)) = Len(Pipe(s)') + d,
           \A k \in 1 .. Len(Pipe(s)') : Pipe(s)'[k] = Pipe(s)[k + d]
    PROVE  Onward(s, d)
<1>1. PICK q : q = Pipe(s)
    OBVIOUS
<1>2. PICK r : r = Pipe(s)'
    OBVIOUS
<1>3. Len(r) \in Nat
    <2>1. frames'[s] \in Seq(Sent) /\ captured' \in Seq(Sent)
        BY DEF Kinds
    <2> QED BY <1>2, <2>1, ConcatProperties, LenProperties DEF Pipe
<1>4. ASSUME NEW n \in 0 .. Len(r), NEW c, NEW i, NEW A,
             Follows(q, n + d, Touching(s, c), c, seen[s], held[s], i, A)
      PROVE  Follows(r, n, Touching(s, c), c, seen'[s], held'[s], i, A)
    <2>1. n \in Nat /\ \A k \in 1 .. n : r[k] = q[k + d]
        BY <1>1, <1>2, <1>3
    <2>2. PICK X, S, H, T, G : /\ X = Touching(s, c) /\ S = seen[s] /\ H = held[s]
                               /\ T = seen'[s] /\ G = held'[s]
        OBVIOUS
    <2>3. Follows(q, n + d, X, c, S, H, i, A) /\ c \notin T
        BY <1>4, <2>2
    <2>4. Follows(r, n, X, c, T, G, i, A)
        BY <2>1, <2>3, FollowsCut
    <2> QED BY <2>2, <2>4
<1> QED BY <1>1, <1>2, <1>3, <1>4 DEF Onward

LEMMA ForwardStep == ASSUME Inv, Forward PROVE Inv'
<1>1. TypeOK /\ Kinds /\ captured # <<>> /\ captured \in Seq(Sent) /\ captured \in Seq(Events)
    BY DEF Inv, Forward, Kinds, TypeOK
<1>2. /\ hub' = hub /\ os' = os /\ hubHeld' = hubHeld /\ mask' = mask
      /\ session' = session /\ held' = held /\ seen' = seen /\ events' = events
      /\ machines' = machines /\ captured' = Tail(captured)
    BY DEF Forward, machines
<1>3. PICK h \in Sent : h = Head(captured)
    BY <1>1, HeadTailProperties
<1>4. Tail(captured) \in Seq(Sent) /\ Tail(captured) \in Seq(Events)
    BY <1>1, HeadTailProperties
<1>5. \A s \in Spokes : frames'[s] = IF s \in session THEN Append(frames[s], h)
                                     ELSE frames[s]
    BY <1>3 DEF Forward
<1>6. frames' = [s \in Spokes |-> frames'[s]]
    BY DEF Forward
<1>7. h \in Events
    BY DEF Sent
<1>8. TypeOK'
    <2>1. ASSUME NEW s \in Spokes PROVE frames'[s] \in Seq(Events)
        <3>1. frames[s] \in Seq(Events) /\ h \in Events
            BY <1>1, <1>7 DEF TypeOK
        <3>2. Append(frames[s], h) \in Seq(Events)
            BY <3>1, AppendProperties
        <3> QED BY <1>5, <3>1, <3>2
    <2> QED BY <1>1, <1>2, <1>4, <1>6, <2>1 DEF TypeOK
<1>9. Kinds'
    <2>1. ASSUME NEW s \in Spokes PROVE frames'[s] \in Seq(Sent)
        <3>1. frames[s] \in Seq(Sent) /\ h \in Sent
            BY <1>1, <1>7 DEF Kinds
        <3>2. Append(frames[s], h) \in Seq(Sent)
            BY <3>1, AppendProperties
        <3> QED BY <1>5, <3>1, <3>2
    <2> QED BY <1>1, <1>2, <1>4, <1>5, <1>6, <2>1 DEF Kinds
<1>10. ASSUME NEW s \in Spokes PROVE \E d \in Nat : Onward(s, d)
    <2>1. CASE s \in session
        <3>1. frames[s] \in Seq(Sent)
            BY <1>1 DEF Kinds
        <3>2. Pipe(s)' = Append(frames[s], h) \o Tail(captured)
            BY <1>2, <1>5, <2>1 DEF Pipe
        <3>3. Append(frames[s], h) = frames[s] \o <<h>> /\ <<h>> \in Seq(Sent)
            BY <3>1, AppendIsConcat
        <3>4. (frames[s] \o <<h>>) \o Tail(captured) = frames[s] \o (<<h>> \o Tail(captured))
            BY <1>4, <3>1, <3>3, ConcatAssociative
        <3>5. <<h>> \o Tail(captured) = captured
            BY <1>1, <1>3, HeadTailProperties
        <3>6. Pipe(s)' = Pipe(s)
            BY <3>2, <3>3, <3>4, <3>5 DEF Pipe
        <3>7. Len(Pipe(s)) \in Nat
            BY <1>1, PipeFacts
        <3>8. \A n \in 0 .. Len(Pipe(s)) : n + 0 = n
            OBVIOUS
        <3>9. Onward(s, 0)
            BY <1>2, <3>6, <3>7, <3>8 DEF Onward
        <3> QED BY <3>9
    <2>2. CASE s \notin session
        <3>1. frames[s] = <<>> /\ frames'[s] = <<>> /\ seen'[s] = {}
            BY <1>1, <1>2, <1>5, <2>2 DEF Kinds
        <3>2. Pipe(s) = captured
            BY <1>1, <3>1, ConcatEmptySeq DEF Pipe
        <3>3. Pipe(s)' = Tail(captured)
            BY <1>2, <1>4, <3>1, ConcatEmptySeq DEF Pipe
        <3>4. /\ Len(captured) = Len(Tail(captured)) + 1
              /\ \A k \in 1 .. Len(Tail(captured)) : Tail(captured)[k] = captured[k + 1]
            BY <1>1, HeadTailProperties, LenProperties
        <3>5. Onward(s, 1)
            BY <1>1, <1>9, <3>1, <3>2, <3>3, <3>4, Loses
        <3> QED BY <3>5
    <2> QED BY <2>1, <2>2
<1> QED BY <1>2, <1>8, <1>9, <1>10, OnwardKeeps DEF Inv

LEMMA JoinStep == ASSUME Inv, NEW s \in Spokes, Join(s) PROVE Inv'
<1>1. TypeOK /\ Kinds
    BY DEF Inv
<1>2. /\ hub' = hub /\ os' = os /\ hubHeld' = hubHeld /\ mask' = mask
      /\ captured' = captured /\ frames' = frames /\ held' = held /\ seen' = seen
      /\ events' = events /\ machines' = machines /\ session' = session \cup {s}
    BY DEF Join, machines
<1>3. TypeOK'
    BY <1>1, <1>2 DEF TypeOK
<1>4. Kinds'
    BY <1>1, <1>2 DEF Kinds
<1>5. ASSUME NEW t \in Spokes PROVE Onward(t, 0)
    BY <1>1, <1>2, Stays
<1>6. ASSUME NEW t \in Spokes PROVE InputsOK(t)' /\ MasksOK(t)'
    BY <1>2, <1>3, <1>5, OnwardKeeps
<1> QED BY <1>3, <1>4, <1>6 DEF Inv

LEMMA LeaveStep == ASSUME Inv, NEW s \in Spokes, Leave(s) PROVE Inv'
<1>1. TypeOK /\ Kinds
    BY DEF Inv
<1>2. /\ hub' = hub /\ os' = os /\ hubHeld' = hubHeld /\ mask' = mask
      /\ captured' = captured /\ held' = held
      /\ frames' = [frames EXCEPT ![s] = <<>>] /\ seen' = [seen EXCEPT ![s] = {}]
      /\ events' = events /\ machines' = machines /\ session' = session \ {s}
    BY DEF Leave, machines
<1>3. TypeOK'
    BY <1>1, <1>2 DEF TypeOK
<1>4. Kinds'
    BY <1>1, <1>2 DEF Kinds
<1>5. ASSUME NEW t \in Spokes PROVE \E d \in Nat : Onward(t, d)
    <2>1. CASE t # s
        <3>1. Onward(t, 0)
            BY <1>1, <1>2, <2>1, Stays DEF Kinds
        <3> QED BY <3>1
    <2>2. CASE t = s
        <3>1. frames'[s] = <<>> /\ seen'[s] = {}
            BY <1>1, <1>2 DEF Kinds
        <3>2. Pipe(s)' = captured
            BY <1>1, <1>2, <3>1, ConcatEmptySeq DEF Pipe, Kinds
        <3>3. PICK d \in Nat : d = Len(frames[s])
            BY <1>1, PipeFacts
        <3>4. Len(Pipe(s)) = Len(captured) + d /\ Len(captured) \in Nat
            BY <1>1, <3>3, PipeFacts
        <3>5. \A k \in 1 .. Len(captured) : captured[k] = Pipe(s)[k + d]
            <4>1. TAKE k \in 1 .. Len(captured)
            <4>2. k + d \in 1 .. d + Len(captured) /\ ~(k + d <= d) /\ (k + d) - d = k
                BY <3>4
            <4> QED BY <1>1, <3>3, <4>2, PipeFacts
        <3>6. Onward(s, d)
            BY <1>1, <1>4, <3>1, <3>2, <3>4, <3>5, Loses
        <3> QED BY <2>2, <3>6
    <2> QED BY <2>1, <2>2
<1>6. ASSUME NEW t \in Spokes PROVE InputsOK(t)' /\ MasksOK(t)'
    BY <1>2, <1>3, <1>5, OnwardKeeps
<1> QED BY <1>3, <1>4, <1>6 DEF Inv

\* The reader of s takes frame e; from then on s holds `left`, and `felt` has
\* had its last event emitted.
Taken(s, e, left, felt) ==
    /\ hub' = hub /\ os' = os /\ hubHeld' = hubHeld /\ mask' = mask
    /\ captured' = captured /\ session' = session
    /\ frames[s] # <<>> /\ e = Head(frames[s])
    /\ frames' = [frames EXCEPT ![s] = Tail(frames[s])]
    /\ held' = [held EXCEPT ![s] = left]
    /\ seen' = [seen EXCEPT ![s] = felt]
    /\ events' = events

\* Of what e moves, `felt` has only what follows it; the rest stays as it was.
Obeys(s, e, left, felt) ==
    /\ \A c \in Pressed(s, e) : c \in felt => (c \in left <=> e.pressed)
    /\ \A c : c \notin Pressed(s, e) =>
          (c \in felt => c \in seen[s]) /\ (c \in left <=> c \in held[s])

LEMMA TakenStep ==
    ASSUME Inv, NEW s \in Spokes, NEW e \in Sent, NEW left, NEW felt,
           Taken(s, e, left, felt), Obeys(s, e, left, felt),
           left \subseteq Controls, felt \subseteq {"key", "button"} \X Nat
    PROVE  Inv'
<1>1. TypeOK /\ Kinds /\ frames[s] # <<>> /\ frames[s] \in Seq(Sent)
    BY DEF Inv, Taken, Kinds
<1>2. e = Head(frames[s])
    BY DEF Taken
<1>3. /\ hub' = hub /\ os' = os /\ hubHeld' = hubHeld /\ mask' = mask
      /\ captured' = captured /\ session' = session
      /\ frames' = [frames EXCEPT ![s] = Tail(frames[s])]
      /\ held' = [held EXCEPT ![s] = left]
      /\ seen' = [seen EXCEPT ![s] = felt]
      /\ events' = events /\ machines' = machines
    BY DEF Taken, machines
<1>4. TypeOK'
    <2>1. frames[s] \in Seq(Events)
        BY <1>1 DEF TypeOK
    <2>2. Tail(frames[s]) \in Seq(Events)
        BY <1>1, <2>1, HeadTailProperties
    <2>5. frames' \in [Spokes -> Seq(Events)]
        BY <1>1, <1>3, <2>2 DEF TypeOK
    <2>6. held' \in [Spokes -> SUBSET Controls]
        BY <1>1, <1>3 DEF TypeOK
    <2> QED BY <1>1, <1>3, <2>5, <2>6 DEF TypeOK
<1>5. Tail(frames[s]) \in Seq(Sent)
    BY <1>1, HeadTailProperties
<1>6. Kinds'
    <2>1. s \in session
        BY <1>1 DEF Kinds
    <2>3. frames' \in [Spokes -> Seq(Sent)]
        BY <1>1, <1>3, <1>5 DEF Kinds
    <2>4. seen' \in [Spokes -> SUBSET ({"key", "button"} \X Nat)]
        BY <1>1, <1>3 DEF Kinds
    <2>5. \A t \in Spokes \ session : frames'[t] = frames[t] /\ seen'[t] = seen[t]
        BY <1>1, <1>3, <2>1 DEF Kinds
    <2> QED BY <1>1, <1>3, <2>3, <2>4, <2>5 DEF Kinds
<1>7. ASSUME NEW t \in Spokes PROVE \E d \in Nat : Onward(t, d)
    <2>1. CASE t # s
        <3>1. Onward(t, 0)
            BY <1>1, <1>3, <2>1, Stays DEF Kinds, TypeOK
        <3> QED BY <3>1
    <2>2. CASE t = s
        <3>1. PICK q : q = Pipe(s)
            OBVIOUS
        <3>2. PICK r : r = Pipe(s)'
            OBVIOUS
        <3>3. /\ frames'[s] = Tail(frames[s])
              /\ held'[s] = left /\ seen'[s] = felt
            BY <1>1, <1>3 DEF Kinds, TypeOK
        <3>4. /\ Len(frames[s]) \in Nat \ {0} /\ Len(captured) \in Nat
              /\ Len(Tail(frames[s])) = Len(frames[s]) - 1
              /\ \A k \in 1 .. Len(Tail(frames[s])) : Tail(frames[s])[k] = frames[s][k + 1]
              /\ frames[s][1] = e
            BY <1>1, <1>2, HeadTailProperties, PipeFacts, EmptySeq
        <3>5. PICK a \in Nat, b \in Nat : a = Len(Tail(frames[s])) /\ b = Len(captured)
            <4>1. Len(Tail(frames[s])) \in Nat
                BY <1>5, LenProperties
            <4> QED BY <3>4, <4>1
        <3>6. r = Tail(frames[s]) \o captured /\ captured \in Seq(Sent)
            BY <1>1, <1>3, <3>2, <3>3 DEF Pipe, Kinds
        <3>7. /\ Len(r) = a + b
              /\ \A k \in 1 .. a + b :
                    r[k] = IF k <= a THEN Tail(frames[s])[k] ELSE captured[k - a]
            BY <1>5, <3>5, <3>6, ConcatProperties
        <3>8. /\ Len(q) = (a + 1) + b
              /\ \A k \in 1 .. (a + 1) + b :
                    q[k] = IF k <= a + 1 THEN frames[s][k] ELSE captured[k - (a + 1)]
            <4>1. Len(frames[s]) = a + 1
                BY <3>4, <3>5
            <4> QED BY <1>1, <3>1, <3>5, <4>1, PipeFacts
        <3>9. ASSUME NEW k \in 1 .. Len(r) PROVE r[k] = q[k + 1]
            <4>1. k \in 1 .. a + b /\ k + 1 \in 1 .. (a + 1) + b
                  /\ (k <= a <=> k + 1 <= a + 1) /\ (k + 1) - (a + 1) = k - a
                BY <3>7
            <4>2. CASE k <= a
                <5>1. k \in 1 .. Len(Tail(frames[s]))
                    BY <3>5, <4>1, <4>2
                <5> QED BY <3>4, <3>7, <3>8, <4>1, <4>2, <5>1
            <4>3. CASE ~(k <= a)
                BY <3>7, <3>8, <4>1, <4>3
            <4> QED BY <4>2, <4>3
        <3>10. q[1] = e
            <4>1. 1 \in 1 .. (a + 1) + b /\ 1 <= a + 1
                OBVIOUS
            <4> QED BY <3>4, <3>8, <4>1
        <3>11. ASSUME NEW n \in 0 .. Len(r), NEW c, NEW i, NEW A,
                      Follows(q, n + 1, Touching(s, c), c, seen[s], held[s], i, A)
               PROVE  Follows(r, n, Touching(s, c), c, seen'[s], held'[s], i, A)
            <4>1. n \in Nat /\ \A k \in 1 .. n : r[k] = q[k + 1]
                BY <3>7, <3>9
            <4>2. PICK X, S, H, T, G : /\ X = Touching(s, c) /\ S = seen[s] /\ H = held[s]
                                       /\ T = seen'[s] /\ G = held'[s]
                OBVIOUS
            <4>3. Follows(q, n + 1, X, c, S, H, i, A)
                BY <3>11, <4>2
            <4>4. q[1] \in X <=> c \in Pressed(s, e)
                BY <3>10, <4>2 DEF Touching
            <4>5. q[1] \in X => (c \in T => (c \in G <=> q[1].pressed))
                BY <3>3, <3>10, <4>2, <4>4 DEF Obeys
            <4>6. q[1] \notin X => (c \in T => c \in S) /\ (c \in G <=> c \in H)
                BY <3>3, <4>2, <4>4 DEF Obeys
            <4>7. Follows(r, n, X, c, T, G, i, A)
                BY <4>1, <4>3, <4>5, <4>6, FollowsEmit
            <4> QED BY <4>2, <4>7
        <3>12. Len(r) \in Nat /\ Len(q) = Len(r) + 1
            BY <3>7, <3>8
        <3>13. Onward(s, 1)
            BY <3>1, <3>2, <3>9, <3>11, <3>12 DEF Onward
        <3> QED BY <2>2, <3>13
    <2> QED BY <2>1, <2>2
<1>8. ASSUME NEW t \in Spokes PROVE InputsOK(t)' /\ MasksOK(t)'
    BY <1>3, <1>4, <1>7, OnwardKeeps
<1> QED BY <1>4, <1>6, <1>8 DEF Inv
\* What the emitter is handed, and what an emission of it would leave.
LEMMA NextFrame ==
    ASSUME Inv, NEW s \in Spokes, frames[s] # <<>>
    PROVE  \E e \in Sent :
              /\ e = Head(frames[s]) /\ Emitted(s, e) \subseteq Controls
              /\ held[s] \subseteq Controls
              /\ seen[s] \cup Pressed(s, e) \subseteq {"key", "button"} \X Nat
<1>1. TypeOK /\ Kinds /\ frames[s] \in Seq(Sent)
    BY DEF Inv, Kinds
<1>2. PICK e \in Sent : e = Head(frames[s])
    BY <1>1, HeadTailProperties
<1>3. e.pressed => Pressed(s, e) \subseteq Controls
    BY <1>1, ControlsTyped
<1>4. Pressed(s, e) \subseteq {"key", "button"} \X Nat
    BY <1>1, ControlsTyped
<1>5. held[s] \subseteq Controls /\ Emitted(s, e) \subseteq Controls
    BY <1>1, <1>3 DEF Emitted, TypeOK
<1>6. seen[s] \subseteq {"key", "button"} \X Nat
    BY <1>1 DEF Kinds
<1> QED BY <1>2, <1>4, <1>5, <1>6

LEMMA EmitStep == ASSUME Inv, NEW s \in Spokes, Emit(s) PROVE Inv'
<1>1. frames[s] # <<>>
    BY DEF Emit
<1>2. PICK e \in Sent :
         /\ e = Head(frames[s]) /\ Emitted(s, e) \subseteq Controls
         /\ seen[s] \cup Pressed(s, e) \subseteq {"key", "button"} \X Nat
    BY <1>1, NextFrame
<1>3. Taken(s, e, Emitted(s, e), seen[s] \cup Pressed(s, e))
    BY <1>1, <1>2 DEF Emit, Taken, machines
<1>4. Obeys(s, e, Emitted(s, e), seen[s] \cup Pressed(s, e))
    BY DEF Obeys, Emitted
<1> QED BY <1>2, <1>3, <1>4, TakenStep

LEMMA EmitFailsStep == ASSUME Inv, NEW s \in Spokes, EmitFails(s) PROVE Inv'
<1>1. frames[s] # <<>>
    BY DEF EmitFails
<1>2. PICK e \in Sent :
         /\ e = Head(frames[s]) /\ Emitted(s, e) \subseteq Controls
         /\ held[s] \subseteq Controls
         /\ seen[s] \cup Pressed(s, e) \subseteq {"key", "button"} \X Nat
    BY <1>1, NextFrame
<1>3. PICK left \in {held[s], Emitted(s, e)} : held' = [held EXCEPT ![s] = left]
    BY <1>2 DEF EmitFails, LeftDone
<1>4. Taken(s, e, left, seen[s] \ Pressed(s, e))
    BY <1>1, <1>2, <1>3 DEF EmitFails, Taken, machines
<1>5. Obeys(s, e, left, seen[s] \ Pressed(s, e))
    BY <1>3 DEF Obeys, Emitted
<1>6. left \subseteq Controls /\ seen[s] \ Pressed(s, e) \subseteq {"key", "button"} \X Nat
    BY <1>2, <1>3
<1> QED BY <1>4, <1>5, <1>6, TakenStep
-------------------------------------------------------------------------------
(* Capture.                                                                 *)

\* Where no two keys are typed alike, only the frames of a modifier move it.
LEMMA ModifierMoved ==
    ASSUME TypeOK, NEW s \in Spokes, Confused[os[s]] = {}, NEW m \in Modifiers,
           NEW c \in KeyOf(s, m), NEW e \in Sent
    PROVE  c \in Pressed(s, e) <=> e.kind = "key" /\ e.code = m
<1>1. os[s] \in Emitters
    BY Machines
<1>2. PICK table : table = Typed[os[s]]
    OBVIOUS
<1>3. m \in DOMAIN table /\ c = <<"key", table[m]>>
    BY <1>2 DEF KeyOf
<1>4. \A v \in DOMAIN table \ {m} : table[v] # table[m]
    <2>1. Confused[os[s]] = {u \in DOMAIN table :
                                \E v \in DOMAIN table \ {u} : table[u] = table[v]}
        BY <1>1, <1>2 DEF Confused
    <2> QED BY <1>3, <2>1
<1>5. CASE e.kind = "key"
    <2>1. ASSUME c \in Pressed(s, e) PROVE e.code = m
        <3>1. c \in KeyOf(s, e.code)
            BY <1>5, <2>1 DEF Pressed
        <3>2. e.code \in DOMAIN table /\ c = <<"key", table[e.code]>>
            BY <1>2, <3>1 DEF KeyOf
        <3> QED BY <1>3, <1>4, <3>2
    <2>2. e.code = m => c \in Pressed(s, e)
        BY <1>5 DEF Pressed
    <2> QED BY <1>5, <2>1, <2>2
<1>6. CASE e.kind = "button"
    <2>1. c \notin ButtonOf(s, e.code)
        BY <1>3 DEF ButtonOf
    <2> QED BY <1>6, <2>1 DEF Pressed
<1>7. CASE e.kind \notin {"key", "button"}
    BY <1>7 DEF Pressed
<1> QED BY <1>5, <1>6, <1>7

\* The inputs and masks of s, when a frame joins the channel.
LEMMA CapturedInputs ==
    ASSUME Inv, TypeOK', machines' = machines, NEW i \in Inputs, NEW p \in BOOLEAN,
           hubHeld' = After(hubHeld, i, p), NEW e \in Sent, Says(e, i, p),
           \A s \in Spokes : Pressed(s, e) \subseteq Moves(s, i),
           i \in Pressable => \A s \in Spokes : Pressed(s, e) = Moves(s, i),
           NEW s \in Spokes, Pipe(s)' = Append(Pipe(s), e),
           seen' = seen, held' = held
    PROVE  InputsOK(s)'
<1>1. TypeOK /\ Kinds /\ InputsOK(s)
    BY DEF Inv
<1>2. /\ \A j \in Inputs : Reaches(s, j)' = Reaches(s, j)
      /\ \A j \in Inputs : \A c : Alone(s, j, c)' <=> Alone(s, j, c)
      /\ \A c : Touching(s, c)' = Touching(s, c)
    BY <1>1, ReachedKept
<1>3. PICK q : q = Pipe(s)
    OBVIOUS
<1>4. PICK r : r = Pipe(s)'
    OBVIOUS
<1>5. /\ q \in Seq(Sent) /\ r = Append(q, e)
    BY <1>1, <1>3, <1>4, PipeFacts
<1>6. PICK n \in Nat : n = Len(q)
    BY <1>5
<1>7. Len(r) = n + 1 /\ r[n + 1] = e /\ \A k \in 1 .. n : r[k] = q[k]
    BY <1>5, <1>6, AppendProperties
<1>8. Pressable \subseteq Inputs
    BY DEF Pressable
<1>9. ASSUME NEW j \in Pressable, NEW c \in Reaches(s, j), Alone(s, j, c)
      PROVE  InStep(s, c, j)'
    <2>1. PICK X, S, H, A, B : /\ X = Touching(s, c) /\ S = seen[s] /\ H = held[s]
                               /\ A = hubHeld /\ B = hubHeld'
        OBVIOUS
    <2>2. Follows(q, n, X, c, S, H, j, A)
        BY <1>1, <1>3, <1>6, <1>9, <2>1 DEF InputsOK, InStep
    <2>3. e \in X <=> c \in Pressed(s, e)
        BY <2>1 DEF Touching
    <2>4. ASSUME j = i PROVE Follows(r, n + 1, X, c, S, H, j, B)
        <3>1. c \in Pressed(s, e)
            BY <1>1, <1>8, <1>9, <2>4, Reached
        <3>2. e.pressed <=> p
            <4>1. e.kind # "scroll"
                BY <3>1 DEF Pressed
            <4> QED BY <4>1 DEF Says
        <3>3. j \in hubHeld' <=> p
            BY <2>4 DEF After
        <3>4. e \in X /\ (e.pressed <=> j \in B)
            BY <2>1, <2>3, <3>1, <3>2, <3>3
        <3> QED BY <1>7, <2>2, <3>4, FollowsAppend
    <2>5. ASSUME j # i PROVE Follows(r, n + 1, X, c, S, H, j, B)
        <3>1. c \notin Pressed(s, e)
            <4>1. c \notin Reaches(s, i)
                BY <1>9, <2>5 DEF Alone
            <4> QED BY <1>1, <4>1, Reached
        <3>2. j \in hubHeld' <=> j \in hubHeld
            BY <2>5 DEF After
        <3>3. e \notin X /\ (j \in A <=> j \in B)
            BY <2>1, <2>3, <3>1, <3>2
        <3> QED BY <1>7, <2>2, <3>3, FollowsAppend
    <2>6. Follows(r, n + 1, X, c, S, H, j, B)
        BY <2>4, <2>5
    <2> QED BY <1>2, <1>4, <1>7, <2>1, <2>6 DEF InStep
<1>10. \A j \in Pressable : \A c \in Reaches(s, j)' : Alone(s, j, c)' => InStep(s, c, j)'
    BY <1>2, <1>8, <1>9
<1> QED BY <1>10 DEF InputsOK

LEMMA CapturedMasks ==
    ASSUME Inv, TypeOK', machines' = machines, NEW i \in Inputs, NEW p \in BOOLEAN,
           NEW e \in Sent, Says(e, i, p),
           mask' = IF i[1] = "key" THEN e.mask ELSE mask,
           NEW s \in Spokes, Pipe(s)' = Append(Pipe(s), e),
           seen' = seen, held' = held
    PROVE  MasksOK(s)'
<1>1. TypeOK /\ Kinds /\ MasksOK(s)
    BY DEF Inv
<1>2. /\ \A c : Touching(s, c)' = Touching(s, c)
      /\ \A m : KeyOf(s, m)' = KeyOf(s, m)
    BY <1>1, ReachedKept
<1>3. PICK q : q = Pipe(s)
    OBVIOUS
<1>4. PICK r : r = Pipe(s)'
    OBVIOUS
<1>5. q \in Seq(Sent) /\ r = Append(q, e)
    BY <1>1, <1>3, <1>4, PipeFacts
<1>6. PICK n \in Nat : n = Len(q)
    BY <1>5
<1>7. Len(r) = n + 1 /\ r[n + 1] = e /\ \A k \in 1 .. n : r[k] = q[k]
    BY <1>5, <1>6, AppendProperties
<1>8. os' = os
    BY DEF machines
<1>9. ASSUME Confused[os[s]] = {}, NEW m \in Modifiers, NEW c \in KeyOf(s, m)
      PROVE  InMask(s, c, m)'
    <2>1. PICK X, S, H, M, N : /\ X = Touching(s, c) /\ S = seen[s] /\ H = held[s]
                               /\ M = mask /\ N = mask'
        OBVIOUS
    <2>2. /\ Follows(q, n, X, c, S, H, m, M)
          /\ \A l \in 1 .. n : q[l].kind = "key" => Follows(q, l, X, c, S, H, m, q[l].mask)
        BY <1>1, <1>3, <1>6, <1>9, <2>1 DEF MasksOK, InMask
    <2>3. e \in X <=> e.kind = "key" /\ e.code = m
        BY <1>1, <1>9, <2>1, ModifierMoved DEF Touching
    <2>4. e.kind = "key" => N = Masked(e.code, p) /\ e.mask = N /\ (e.pressed <=> p)
        BY <2>1 DEF Says
    <2>5. e.kind # "key" => N = M
        BY <2>1 DEF Says
    <2>6. e \in X => (e.pressed <=> m \in N)
        BY <2>3, <2>4 DEF Masked, After
    <2>7. e \notin X => (m \in M <=> m \in N)
        BY <2>1, <2>3, <2>4, <2>5 DEF Masked, After
    <2>8. Follows(r, n + 1, X, c, S, H, m, N)
        BY <1>7, <2>2, <2>6, <2>7, FollowsAppend
    <2>9. ASSUME NEW l \in 1 .. n + 1, r[l].kind = "key"
          PROVE  Follows(r, l, X, c, S, H, m, r[l].mask)
        <3>1. CASE l = n + 1
            BY <1>7, <2>4, <2>8, <2>9, <3>1
        <3>2. CASE l # n + 1
            <4>1. l \in 1 .. n /\ l \in Nat /\ \A k \in 1 .. l : k \in 1 .. n
                BY <3>2
            <4>2. r[l] = q[l] /\ \A k \in 1 .. l : r[k] = q[k]
                BY <1>7, <4>1
            <4>3. PICK A : A = q[l].mask
                OBVIOUS
            <4>4. Follows(q, l, X, c, S, H, m, A)
                BY <2>2, <2>9, <4>1, <4>2, <4>3
            <4>5. Follows(r, l, X, c, S, H, m, A)
                BY <4>1, <4>2, <4>4, FollowsSame
            <4> QED BY <4>2, <4>3, <4>5
        <3> QED BY <3>1, <3>2
    <2> QED BY <1>2, <1>4, <1>7, <2>1, <2>8, <2>9 DEF InMask
<1> QED BY <1>2, <1>8, <1>9 DEF MasksOK

LEMMA ConcatAppend ==
    ASSUME NEW S, NEW a \in Seq(S), NEW b \in Seq(S), NEW x \in S
    PROVE  a \o Append(b, x) = Append(a \o b, x)
<1>1. <<x>> \in Seq(S) /\ a \o b \in Seq(S)
    BY ConcatProperties
<1>2. (a \o b) \o <<x>> = a \o (b \o <<x>>)
    BY <1>1, ConcatAssociative
<1> QED BY <1>1, <1>2, AppendIsConcat

\* The frames of s are those it had, or one more.
LEMMA CaptureStep ==
    ASSUME Inv, NEW i \in Inputs, NEW p \in BOOLEAN, Capture(i, p) PROVE Inv'
<1>1. TypeOK /\ Kinds /\ captured \in Seq(Sent) /\ captured \in Seq(Events)
    BY DEF Inv, Kinds, TypeOK
<1>2. /\ hub' = hub /\ os' = os /\ hubHeld' = After(hubHeld, i, p)
      /\ session' = session /\ frames' = frames /\ held' = held /\ seen' = seen
      /\ machines' = machines /\ events < MaxEvents /\ events' = events + 1
      /\ captured' = captured \o InputEvents(i, p)
      /\ mask' = IF InputEvents(i, p) # <<>> /\ i[1] = "key"
                 THEN InputEvents(i, p)[1].mask ELSE mask
    BY DEF Capture, machines
<1>3. hubHeld' \subseteq Inputs /\ events' \in 0 .. MaxEvents
    BY <1>1, <1>2, InputAssumption DEF After, TypeOK
<1>4. CASE InputEvents(i, p) = <<>> /\ \A s \in Spokes : Moves(s, i) = {}
    <2>1. captured' = captured /\ mask' = mask
        BY <1>1, <1>2, <1>4, ConcatEmptySeq
    <2>2. TypeOK'
        BY <1>1, <1>2, <1>3, <2>1 DEF TypeOK
    <2>3. Kinds'
        BY <1>1, <1>2, <2>1 DEF Kinds
    <2>4. ASSUME NEW s \in Spokes PROVE InputsOK(s)' /\ MasksOK(s)'
        <3>1. InputsOK(s) /\ MasksOK(s)
            BY DEF Inv
        <3>2. Pipe(s)' = Pipe(s)
            BY <1>2, <2>1 DEF Pipe
        <3>3. /\ \A j \in Inputs : Reaches(s, j)' = Reaches(s, j)
              /\ \A j \in Inputs : \A c : Alone(s, j, c)' <=> Alone(s, j, c)
              /\ \A c : Touching(s, c)' = Touching(s, c)
              /\ \A m : KeyOf(s, m)' = KeyOf(s, m)
            BY <1>1, <1>2, <2>2, ReachedKept
        <3>4. Pressable \subseteq Inputs
            BY DEF Pressable
        <3>5. ASSUME NEW j \in Pressable, NEW c \in Reaches(s, j), Alone(s, j, c)
              PROVE  InStep(s, c, j)'
            <4>1. j # i
                BY <1>1, <1>4, <3>4, <3>5, Reached
            <4>2. j \in hubHeld' <=> j \in hubHeld
                BY <1>2, <4>1 DEF After
            <4>3. InStep(s, c, j)
                BY <3>1, <3>5 DEF InputsOK
            <4>4. PICK q, n, X, S, H, A, B :
                      /\ q = Pipe(s) /\ n = Len(Pipe(s)) /\ X = Touching(s, c)
                      /\ S = seen[s] /\ H = held[s] /\ A = hubHeld /\ B = hubHeld'
                OBVIOUS
            <4>5. n \in Nat
                BY <1>1, <4>4, PipeFacts
            <4>6. Follows(q, n, X, c, S, H, j, A)
                BY <4>3, <4>4 DEF InStep
            <4>7. Follows(q, n, X, c, S, H, j, B)
                BY <4>2, <4>4, <4>5, <4>6, FollowsSame
            <4> QED BY <1>2, <3>2, <3>3, <4>4, <4>7 DEF InStep
        <3>6. InputsOK(s)'
            <4>1. \A j \in Pressable : \A c \in Reaches(s, j)' :
                      Alone(s, j, c)' => InStep(s, c, j)'
                BY <3>3, <3>4, <3>5
            <4> QED BY <4>1 DEF InputsOK
        <3>7. MasksOK(s)'
            <4>1. \A m, c : InMask(s, c, m)' <=> InMask(s, c, m)
                BY <1>2, <2>1, <3>2, <3>3 DEF InMask
            <4> QED BY <1>2, <3>1, <3>3, <4>1 DEF MasksOK
        <3> QED BY <3>6, <3>7
    <2> QED BY <2>2, <2>3, <2>4 DEF Inv
<1>5. ASSUME NEW e \in Sent, InputEvents(i, p) = <<e>>, Says(e, i, p),
             \A s \in Spokes : Pressed(s, e) \subseteq Moves(s, i),
             i \in Pressable => \A s \in Spokes : Pressed(s, e) = Moves(s, i)
      PROVE  Inv'
    <2>1. captured' = Append(captured, e)
        BY <1>1, <1>2, <1>5, AppendIsConcat
    <2>2. mask' = IF i[1] = "key" THEN e.mask ELSE mask
        <3>1. PICK new : new = InputEvents(i, p)
            OBVIOUS
        <3>2. new # <<>> /\ new[1] = e
            BY <1>5, <3>1
        <3> QED BY <1>2, <3>1, <3>2
    <2>3. e \in Events /\ mask' \subseteq Modifiers
        BY <1>1, <2>2 DEF Sent, Events, TypeOK
    <2>4. captured' \in Seq(Sent) /\ captured' \in Seq(Events)
        BY <1>1, <2>1, <2>3, AppendProperties
    <2>5. TypeOK'
        BY <1>1, <1>2, <1>3, <2>3, <2>4 DEF TypeOK
    <2>6. Kinds'
        BY <1>1, <1>2, <2>4 DEF Kinds
    <2>7. ASSUME NEW s \in Spokes PROVE Pipe(s)' = Append(Pipe(s), e)
        <3>1. frames[s] \in Seq(Sent) /\ Pipe(s)' = frames[s] \o Append(captured, e)
            BY <1>1, <1>2, <2>1 DEF Kinds, Pipe
        <3>2. PICK f, q : f = frames[s] /\ q = captured
            OBVIOUS
        <3>3. f \in Seq(Sent) /\ q \in Seq(Sent)
            BY <1>1, <3>1, <3>2
        <3>4. f \o Append(q, e) = Append(f \o q, e)
            BY <3>3, ConcatAppend
        <3> QED BY <3>1, <3>2, <3>4 DEF Pipe
    <2>8. ASSUME NEW s \in Spokes PROVE InputsOK(s)'
        BY <1>2, <1>5, <2>5, <2>7, CapturedInputs
    <2>9. ASSUME NEW s \in Spokes PROVE MasksOK(s)'
        BY <1>2, <1>5, <2>2, <2>5, <2>7, CapturedMasks
    <2> QED BY <2>5, <2>6, <2>8, <2>9 DEF Inv
<1> QED BY <1>1, <1>4, <1>5, Captured
-------------------------------------------------------------------------------
LEMMA InitInv == Init => Inv
<1> SUFFICES ASSUME Init PROVE Inv
    OBVIOUS
<1>1. PICK setup \in Setups : hub = setup[1] /\ os = setup[2]
    BY DEF Init
<1>2. <<hub, os>> \in Setups
    <2>1. setup \in Platforms \X [Spokes -> Emitters]
        BY InputAssumption
    <2>2. setup = <<setup[1], setup[2]>>
        BY <2>1
    <2> QED BY <1>1, <2>2
<1>3. TypeOK
    BY <1>2, InputAssumption DEF Init, TypeOK
<1>4. Kinds
    BY DEF Init, Kinds
<1>5. \A s \in Spokes : Pipe(s) = <<>> /\ Len(Pipe(s)) = 0 /\ seen[s] = {}
    <2>1. <<>> \o <<>> = <<>> /\ Len(<<>>) = 0
        BY ConcatEmptySeq, EmptySeq
    <2> QED BY <2>1 DEF Init, Pipe
<1>6. \A q, X, c, H, i, A : Follows(q, 0, X, c, {}, H, i, A)
    BY DEF Follows
<1>7. \A s \in Spokes : InputsOK(s)
    BY <1>5, <1>6 DEF InputsOK, InStep
<1>8. \A s \in Spokes : MasksOK(s)
    <2>1. ASSUME NEW s \in Spokes, NEW c, NEW m PROVE InMask(s, c, m)
        <3>1. Follows(Pipe(s), Len(Pipe(s)), Touching(s, c), c, seen[s], held[s], m, mask)
            BY <1>5, <1>6
        <3>2. \A l \in 1 .. Len(Pipe(s)) : FALSE
            BY <1>5
        <3> QED BY <3>1, <3>2 DEF InMask
    <2> QED BY <2>1 DEF MasksOK
<1> QED BY <1>3, <1>4, <1>7, <1>8 DEF Inv

LEMMA StutterStep == ASSUME Inv, UNCHANGED vars PROVE Inv'
<1>1. /\ hub' = hub /\ os' = os /\ hubHeld' = hubHeld /\ mask' = mask
      /\ captured' = captured /\ session' = session /\ frames' = frames
      /\ held' = held /\ seen' = seen /\ events' = events /\ machines' = machines
    BY DEF vars, machines
<1>2. TypeOK' /\ Kinds'
    BY <1>1 DEF Inv, TypeOK, Kinds
<1>3. ASSUME NEW s \in Spokes PROVE Onward(s, 0)
    BY <1>1, Stays DEF Inv
<1>4. ASSUME NEW s \in Spokes PROVE InputsOK(s)' /\ MasksOK(s)'
    BY <1>1, <1>2, <1>3, OnwardKeeps
<1> QED BY <1>2, <1>4 DEF Inv

\* The invariant holds in every reachable state.
THEOREM InvAlways == Spec => []Inv
<1>1. Inv /\ [Next]_vars => Inv'
    BY CaptureStep, ForwardStep, JoinStep, LeaveStep, EmitStep, EmitFailsStep,
       StutterStep DEF Next
<1> QED BY <1>1, InitInv, PTL DEF Spec

\* Every state of the input path is well formed: frames are what a capture
\* sends, spokes hold native keys and buttons.
THEOREM FramesAreWellFormed == Spec => []TypeOK
<1>1. Inv => TypeOK
    BY DEF Inv
<1> QED BY <1>1, InvAlways, PTL

\* A spoke is in step with the hub in what it has emitted, once everything
\* has arrived (capture.rs and emit.rs of the three platforms).
THEOREM SpokesFollow == Spec => []SpokesInStep
<1>1. Inv => SpokesInStep
    <2> SUFFICES ASSUME Inv, NEW s \in session, Drained(s), NEW i \in Pressable,
                        NEW c \in Reaches(s, i) \cap seen[s],
                        \A j \in Inputs \ {i} : c \notin Reaches(s, j)
                 PROVE  c \in held[s] <=> i \in hubHeld
        BY DEF SpokesInStep, Pressable
    <2>1. s \in Spokes /\ InputsOK(s)
        BY DEF Inv, TypeOK
    <2>2. InStep(s, c, i)
        BY <2>1 DEF InputsOK, Alone
    <2>3. Len(Pipe(s)) = 0
        <3>1. <<>> \o <<>> = <<>> /\ Len(<<>>) = 0
            BY ConcatEmptySeq, EmptySeq
        <3> QED BY <3>1 DEF Drained, Pipe
    <2> QED BY <2>2, <2>3 DEF InStep, Follows
<1> QED BY <1>1, InvAlways, PTL

\* The tables of every platform agree with each other (keymap.rs of the
\* three).
THEOREM KeysAgree == Spec => []KeyTablesAgree
<1>1. Inv => KeyTablesAgree
    BY Machines, KeysAreHeard, KeysAreTold DEF Inv, KeyTablesAgree
<1> QED BY <1>1, InvAlways, PTL

\* The mask of a key frame is what its spoke holds of the modifiers
\* (pal-x11 capture.rs:237-266, pal-windows capture.rs:139-152).
THEOREM MasksAreHeld == Spec => []MaskIsWhatTheSpokeHolds
<1>1. Inv => MaskIsWhatTheSpokeHolds
    <2> SUFFICES ASSUME Inv, NEW s \in session, frames[s] # <<>>,
                        Head(frames[s]).kind = "key", NEW m \in Modifiers,
                        NEW c \in KeyOf(s, m) \cap (seen[s] \cup Pressed(s, Head(frames[s])))
                 PROVE  m \in Head(frames[s]).mask <=> c \in Emitted(s, Head(frames[s]))
        BY DEF MaskIsWhatTheSpokeHolds
    <2>1. TypeOK /\ Kinds /\ s \in Spokes /\ MasksOK(s) /\ Confused[os[s]] = {}
        BY Machines, KeysAreTold DEF Inv, TypeOK
    <2>2. frames[s] \in Seq(Sent)
        BY <2>1 DEF Kinds
    <2>3. PICK e \in Sent : e = Head(frames[s])
        BY <2>2, HeadTailProperties
    <2>4. /\ Len(frames[s]) \in Nat \ {0} /\ Len(captured) \in Nat
          /\ frames[s][1] = e
        BY <2>1, <2>2, <2>3, EmptySeq, PipeFacts
    <2>5. 1 \in 1 .. Len(Pipe(s)) /\ Pipe(s)[1] = e
        <3>1. 1 \in 1 .. Len(frames[s]) + Len(captured) /\ 1 <= Len(frames[s])
            BY <2>4
        <3> QED BY <2>1, <2>4, <3>1, PipeFacts
    <2>6. InMask(s, c, m)
        BY <2>1 DEF MasksOK
    <2>7. Follows(Pipe(s), 1, Touching(s, c), c, seen[s], held[s], m, e.mask)
        BY <2>3, <2>5, <2>6 DEF InMask
    <2>8. e \in Touching(s, c) <=> c \in Pressed(s, e)
        BY DEF Touching
    <2>9. 1 \in 1 .. 1 /\ (\A k \in 1 .. 1 : k = 1) /\ (\A k \in 1 + 1 .. 1 : FALSE)
        OBVIOUS
    <2>10. CASE c \in Pressed(s, e)
        <3>1. e.pressed <=> m \in e.mask
            BY <2>5, <2>7, <2>8, <2>9, <2>10 DEF Follows
        <3> QED BY <2>3, <2>10, <3>1 DEF Emitted
    <2>11. CASE c \notin Pressed(s, e)
        <3>1. c \in seen[s]
            BY <2>3, <2>11
        <3>2. c \in held[s] <=> m \in e.mask
            BY <2>5, <2>7, <2>8, <2>9, <2>11, <3>1 DEF Follows
        <3> QED BY <2>3, <2>11, <3>2 DEF Emitted
    <2> QED BY <2>10, <2>11
<1> QED BY <1>1, InvAlways, PTL
===============================================================================
