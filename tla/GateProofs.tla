------------------------------ MODULE GateProofs ------------------------------
(***************************************************************************)
(* Theorems about RiskGate, for any files, limits, symbols and sizes of    *)
(* buffers: the file read last is what the gate and assert go by, however  *)
(* often it sets a limit, the gate lets all of a text through or nothing,  *)
(* and text that was lost is reported.                                     *)
(***************************************************************************)
EXTENDS RiskGate, TLAPS

-------------------------------------------------------------------------------
(* The limits while the file is read *)

\* The lines of the first n that set k, and what they leave it at.
Settings(k, n) == {i \in 1..n : read[i].key = k}

Got(k, n) == IF Settings(k, n) = {} THEN Defaults[k]
                                    ELSE Value(read[Max(Settings(k, n))])

\* The limits are what the lines read so far make of the defaults.  That the last
\* setting of a limit is one of them cannot be had from the library without
\* induction; it is carried along instead.
InForce ==
    /\ file \in Files \cup {Absent} /\ read \in Files \cup {Absent}
    /\ line \in 0..(IF read = Absent THEN 0 ELSE Len(read))
    /\ limits = [k \in Keys |-> Got(k, line)]
    /\ \A k \in Keys : Settings(k, line) # {} => Max(Settings(k, line)) \in Settings(k, line)
    /\ loaded \in BOOLEAN
    /\ at # "parse" => ~LinesLeft /\ loaded = (read # Absent)

-------------------------------------------------------------------------------
(* What is captured *)

Places == {"parse", "idle", "capture", "check", "passed", "refused"}

Held ==
    /\ at \in Places /\ variant \in Variants /\ warned \in BOOLEAN
    /\ wrote \in Seq(Units) /\ captured \in Seq(Units)
    /\ Len(captured) <= Len(wrote) /\ Len(captured) <= Room
    /\ variant = "plain" /\ ~warned => captured = wrote

-------------------------------------------------------------------------------
(* What the gate and assert have said *)

Bad == {o \in LinesOf(captured) : ~Permitted(o)}

Judged ==
    /\ at \in {"parse", "idle", "capture"} => rejected = {}
    /\ rejected \subseteq LinesOf(captured)
    /\ Fits(read) /\ variant = "plain" =>
          /\ at \in {"check", "passed"} => Bad = {}
          /\ rejected # {} => rejected = Bad

WithinLimits(a) ==
    /\ a.drawdown <= Given("MAX_DRAWDOWN_PCT")
    /\ a.loss <= Given("MAX_DAILY_LOSS")

Asserted ==
    \/ asserted = NotAsserted
    \/ /\ at # "parse"
       /\ asserted.passes \in BOOLEAN
       /\ Fits(read) => (asserted.passes <=> (read = Absent \/ WithinLimits(asserted)))
-------------------------------------------------------------------------------
(* Reading the file *)

\* Max is the one element that no other exceeds.
LEMMA MaxIs ==
    ASSUME NEW S, S \subseteq Int, NEW m \in S, \A y \in S : m >= y
    PROVE  Max(S) = m
<1>1. \A x \in S : (\A y \in S : x >= y) => x = m
    OBVIOUS
<1>. QED
    BY <1>1, Zenon DEF Max

\* No line is no setting.
LEMMA GotNothing ==
    \A k \in Keys : Settings(k, 0) = {} /\ Got(k, 0) = Defaults[k]
BY DEF Settings, Got

LEMMA DefaultsForce == Defaults = [k \in Keys |-> Got(k, 0)]
BY GotNothing, RiskAssumption

\* A line is the last setting of what it sets and leaves the rest alone.
LEMMA GotMore ==
    ASSUME NEW n \in Nat, NEW k \in Keys,
           Settings(k, n) # {} => Max(Settings(k, n)) \in Settings(k, n)
    PROVE  /\ Got(k, n + 1) = IF read[n + 1].key = k THEN Value(read[n + 1]) ELSE Got(k, n)
           /\ Settings(k, n + 1) # {} => Max(Settings(k, n + 1)) \in Settings(k, n + 1)
<1>1. CASE read[n + 1].key = k
    <2>1. n + 1 \in Settings(k, n + 1)
        BY <1>1 DEF Settings
    <2>2. Settings(k, n + 1) \subseteq Int /\ \A y \in Settings(k, n + 1) : n + 1 >= y
        BY DEF Settings
    <2>3. Max(Settings(k, n + 1)) = n + 1
        BY <2>1, <2>2, MaxIs
    <2>. QED
        BY <1>1, <2>1, <2>3 DEF Got
<1>2. CASE read[n + 1].key # k
    <2>1. Settings(k, n + 1) = Settings(k, n)
        BY <1>2 DEF Settings
    <2>. QED
        BY <1>2, <2>1 DEF Got
<1>. QED
    BY <1>1, <1>2

LEMMA InForceStart ==
    ASSUME Init
    PROVE  InForce
<1>1. /\ line = 0 /\ limits = Defaults /\ read = file /\ loaded = FALSE /\ at = "parse"
      /\ file \in Files \cup {Absent}
    BY DEF Init
<1>2. read # Absent => Len(read) \in Nat
    BY <1>1, RiskAssumption DEF IsFile
<1>3. \A k \in Keys : Settings(k, line) = {}
    BY <1>1, GotNothing
<1>4. limits = [k \in Keys |-> Got(k, line)]
    BY <1>1, DefaultsForce
<1>5. line \in 0..(IF read = Absent THEN 0 ELSE Len(read))
    BY <1>1, <1>2
<1>6. read \in Files \cup {Absent} /\ loaded \in BOOLEAN
    BY <1>1
<1>. QED
    BY <1>1, <1>3, <1>4, <1>5, <1>6 DEF InForce

\* What does not read leaves the limits alone.
Unread == UNCHANGED <<configVars>> /\ file' \in Files \cup {Absent}
          /\ (at' = "parse" <=> at = "parse")

LEMMA InForceUnread ==
    ASSUME InForce, Unread
    PROVE  InForce'
<1>1. UNCHANGED <<limits, loaded, line, read>>
    BY DEF Unread, configVars
<1>. QED
    BY <1>1 DEF Unread, InForce, Settings, Got, LinesLeft

LEMMA InForceOpened ==
    ASSUME InForce, Open(Defaults)
    PROVE  InForce'
<1>1. /\ line' = 0 /\ limits' = Defaults /\ read' = file /\ loaded' = FALSE /\ at' = "parse"
      /\ file' = file /\ file \in Files \cup {Absent}
    BY DEF Open, InForce
<1>2. read' # Absent => Len(read') \in Nat
    BY <1>1, RiskAssumption DEF IsFile
<1>3. \A k \in Keys : Settings(k, line)' = {} /\ Got(k, line)' = Defaults[k]
    BY <1>1 DEF Settings, Got
<1>4. limits' = [k \in Keys |-> Got(k, line)']
    BY <1>1, <1>3, RiskAssumption
<1>5. line' \in 0..(IF read' = Absent THEN 0 ELSE Len(read'))
    BY <1>1, <1>2
<1>6. file' \in Files \cup {Absent} /\ read' \in Files \cup {Absent} /\ loaded' \in BOOLEAN
    BY <1>1
<1>. QED
    BY <1>1, <1>3, <1>4, <1>5, <1>6 DEF InForce

LEMMA InForceLine ==
    ASSUME InForce, ReadLine
    PROVE  InForce'
<1>1. /\ at = "parse" /\ read # Absent /\ line < Len(read) /\ line' = line + 1
      /\ limits' = Apply(limits, read[line + 1])
      /\ UNCHANGED <<file, loaded, read, at>>
    BY DEF ReadLine, LinesLeft, gateVars
<1>2. Len(read) \in Nat /\ line \in Nat
    BY <1>1, RiskAssumption DEF IsFile, InForce
<1>3. \A k \in Keys :
         /\ Got(k, line + 1) = IF read[line + 1].key = k THEN Value(read[line + 1])
                                                         ELSE Got(k, line)
         /\ Settings(k, line + 1) # {} => Max(Settings(k, line + 1)) \in Settings(k, line + 1)
    BY <1>2, GotMore DEF InForce
<1>4. limits = [k \in Keys |-> Got(k, line)] /\ DOMAIN limits = Keys
      /\ limits = [k \in Keys |-> limits[k]]
    BY DEF InForce
<1>5. limits' = [k \in Keys |-> IF read[line + 1].key = k THEN Value(read[line + 1])
                                                          ELSE limits[k]]
    <2>. DEFINE d == read[line + 1]
    <2>1. Apply(limits, d) = [k \in Keys |-> IF d.key = k THEN Value(d) ELSE limits[k]]
        <3>. HIDE DEF d
        <3>. QED
            BY <1>4 DEF Apply
    <2>. QED
        BY <1>1, <2>1
<1>6. limits' = [k \in Keys |-> Got(k, line + 1)]
    BY <1>3, <1>4, <1>5
<1>7. \A k \in Keys : Settings(k, line)' = Settings(k, line + 1)
                      /\ Got(k, line)' = Got(k, line + 1)
    BY <1>1 DEF Settings, Got
<1>8. limits' = [k \in Keys |-> Got(k, line)']
    BY <1>6, <1>7
<1>9. \A k \in Keys :
         Settings(k, line)' # {} => Max(Settings(k, line)') \in Settings(k, line)'
    BY <1>3, <1>7
<1>10. line' \in 0..(IF read' = Absent THEN 0 ELSE Len(read'))
    BY <1>1, <1>2
<1>11. file' \in Files \cup {Absent} /\ read' \in Files \cup {Absent} /\ loaded' \in BOOLEAN
    BY <1>1 DEF InForce
<1>. QED
    BY <1>1, <1>8, <1>9, <1>10, <1>11 DEF InForce

LEMMA InForceRead ==
    ASSUME InForce, EndOfFile
    PROVE  InForce'
<1>1. /\ ~LinesLeft /\ loaded' = (read # Absent) /\ at' = "idle"
      /\ UNCHANGED <<file, limits, line, read>>
    BY DEF EndOfFile
<1>. QED
    BY <1>1 DEF InForce, Settings, Got, LinesLeft

\* Every step but those reads nothing.
LEMMA StepCases ==
    ASSUME InForce, [Next]_vars
    PROVE  \/ Open(Defaults) \/ ReadLine \/ EndOfFile
           \/ Unread
<1>1. CASE EditFile
    BY <1>1 DEF EditFile, Unread, gateVars
<1>2. CASE Reload
    BY <1>2 DEF Reload, ReloadBase
<1>3. ASSUME NEW d \in Losses, NEW l \in Losses, CommandAssert(d, l)
      PROVE  Unread
    BY <1>3 DEF CommandAssert, Unread, Resting, InForce
<1>4. ASSUME NEW v \in Variants, StartGate(v)
      PROVE  Unread
    BY <1>4 DEF StartGate, Unread, Resting, InForce
<1>5. ASSUME NEW us \in Chunks, Capture(us)
      PROVE  Unread
    BY <1>5 DEF Capture, Unread, InForce
<1>6. CASE EndOfOutput
    BY <1>6 DEF EndOfOutput, Unread, InForce
<1>7. ASSUME NEW exit \in {0, 1, 127}, Checker(exit)
      PROVE  Unread
    BY <1>7 DEF Checker, Unread, InForce
<1>8. CASE CheckerGone
    BY <1>8 DEF CheckerGone
<1>9. CASE UNCHANGED vars
    BY <1>9 DEF vars, gateVars, Unread, InForce
<1>. QED
    BY <1>1, <1>2, <1>3, <1>4, <1>5, <1>6, <1>7, <1>8, <1>9 DEF Next

LEMMA InForceStep ==
    ASSUME InForce, [Next]_vars
    PROVE  InForce'
BY StepCases, InForceOpened, InForceLine, InForceRead, InForceUnread

-------------------------------------------------------------------------------
(* The limits once the file is read *)

\* A list that fits on its line is read whole.
LEMMA ValueWhole ==
    ASSUME NEW d, d.key \in Lists, d.val \in Seq(Symbols), Len(d.val) <= ListRoom
    PROVE  Value(d) = Range(d.val)
<1>1. DOMAIN d.val = 1..Len(d.val) /\ Len(d.val) \in Nat
    OBVIOUS
<1>2. 1..Len(d.val) \cap 1..ListRoom = 1..Len(d.val)
    BY <1>1, RiskAssumption
<1>. QED
    BY <1>1, <1>2 DEF Value, Range

\* The lines that set k, of the whole file.
LEMMA SettingsWhole ==
    ASSUME InForce, ~LinesLeft, NEW k \in Keys
    PROVE  Settings(k, line) =
              (IF read = Absent THEN {} ELSE {i \in DOMAIN read : read[i].key = k})
<1>1. CASE read = Absent
    BY <1>1 DEF InForce, Settings
<1>2. CASE read # Absent
    <2>1. line = Len(read) /\ DOMAIN read = 1..Len(read)
        BY <1>2, RiskAssumption DEF InForce, LinesLeft, IsFile
    <2>. QED
        BY <1>2, <2>1 DEF Settings
<1>. QED
    BY <1>1, <1>2

\* The limits are those of the file, or the defaults where it is silent.
LEMMA LimitsAreGiven ==
    ASSUME InForce, ~LinesLeft, Fits(read), NEW k \in Keys
    PROVE  limits[k] = Given(k) /\ (k \notin Lists => Given(k) \in Int)
<1>. DEFINE S == Settings(k, line)
<1>1. limits[k] = Got(k, line)
    BY DEF InForce
<1>2. S = (IF read = Absent THEN {} ELSE {i \in DOMAIN read : read[i].key = k})
    BY SettingsWhole
<1>3. Given(k) = IF S = {} THEN Defaults[k]
                 ELSE IF k \in Lists THEN Range(read[Max(S)].val) ELSE read[Max(S)].val
    BY <1>2 DEF Given
<1>4. Got(k, line) = IF S = {} THEN Defaults[k] ELSE Value(read[Max(S)])
    BY DEF Got
<1>5. CASE S = {}
    BY <1>1, <1>3, <1>4, <1>5, RiskAssumption
<1>6. CASE S # {}
    <2>1. Max(S) \in S
        BY <1>6 DEF InForce
    <2>. DEFINE j == Max(S)
    <2>2. read # Absent /\ j \in DOMAIN read /\ read[j].key = k
        BY <1>2, <1>6, <2>1
    <2>. HIDE DEF S, j
    <2>3. IsFile(read)
        BY <2>2, RiskAssumption DEF InForce
    <2>4. CASE k \in Lists
        <3>1. read[j].val \in Seq(Symbols) /\ Len(read[j].val) <= ListRoom
            BY <2>2, <2>3, <2>4 DEF IsFile, Fits
        <3>2. Value(read[j]) = Range(read[j].val)
            BY <2>2, <2>4, <3>1, ValueWhole
        <3>. QED
            BY <1>1, <1>3, <1>4, <1>6, <2>4, <3>2 DEF j
    <2>5. CASE k \notin Lists
        <3>1. Value(read[j]) = read[j].val /\ read[j].val \in Int
            BY <2>2, <2>3, <2>5 DEF IsFile, Value
        <3>. QED
            BY <1>1, <1>3, <1>4, <1>6, <2>5, <3>1 DEF j
    <2>. QED
        BY <2>4, <2>5
<1>. QED
    BY <1>5, <1>6

-------------------------------------------------------------------------------
(* Lines of the captured text *)

IsLine(o) == o.symbol \in Symbols \cup {Stray} /\ o.size \in Nat /\ o.price \in Nat

\* A piece of the output is taken for a line.
LEMMA PieceIsLine ==
    ASSUME NEW w \in Seq(Units), Len(w) >= 1
    PROVE  IsLine(ParsedLine(w))
<1>1. w[1] \in Units /\ (Len(w) = 2 => w[2] \in Units)
    OBVIOUS
<1>2. \A u \in Units : \/ u.kind = "head" /\ u.symbol \in Symbols
                       \/ u.kind = "tail" /\ u.size \in Sizes /\ u.price \in Prices
    BY DEF Units, Head1, Tail1
<1>3. CASE w[1].kind = "tail"
    <2>1. ParsedLine(w) = [symbol |-> Stray, size |-> 0, price |-> 0]
        BY <1>3 DEF ParsedLine
    <2>. QED
        BY <2>1 DEF IsLine
<1>4. CASE w[1].kind = "head" /\ Len(w) = 2 /\ w[2].kind = "tail"
    <2>1. ParsedLine(w) = [symbol |-> w[1].symbol, size |-> w[2].size, price |-> w[2].price]
        BY <1>4 DEF ParsedLine
    <2>2. w[1].symbol \in Symbols /\ w[2].size \in Nat /\ w[2].price \in Nat
        BY <1>1, <1>2, <1>4, RiskAssumption
    <2>. QED
        BY <2>1, <2>2 DEF IsLine
<1>5. CASE w[1].kind = "head" /\ ~(Len(w) = 2 /\ w[2].kind = "tail")
    <2>1. ParsedLine(w) = [symbol |-> w[1].symbol, size |-> 0, price |-> 0]
        BY <1>5 DEF ParsedLine
    <2>2. w[1].symbol \in Symbols
        BY <1>1, <1>2, <1>5
    <2>. QED
        BY <2>1, <2>2 DEF IsLine
<1>. QED
    BY <1>1, <1>2, <1>3, <1>4, <1>5

LEMMA LinesAreLines ==
    ASSUME NEW us \in Seq(Units), NEW o \in LinesOf(us)
    PROVE  IsLine(o)
<1>1. PICK i \in DOMAIN us, j \in DOMAIN us : i <= j /\ o = ParsedLine(SubSeq(us, i, j))
    BY DEF LinesOf
<1>2. i \in 1..Len(us) /\ j \in 1..Len(us) /\ Len(us) \in Nat
    OBVIOUS
<1>3. SubSeq(us, i, j) \in Seq(Units) /\ Len(SubSeq(us, i, j)) >= 1
    BY <1>1, <1>2
<1>. QED
    BY <1>1, <1>3, PieceIsLine

\* The gate's check is the policy of the file.
LEMMA CheckIsPolicy ==
    ASSUME InForce, ~LinesLeft, Fits(read), NEW o, IsLine(o)
    PROVE  Validate(o) = "PASS" <=> Permitted(o)
<1>. DEFINE m == o.size * o.price
<1>1. o.size \in Nat /\ o.price \in Nat /\ m \in Nat
    BY DEF IsLine
<1>2. (o.size = 0 => m = 0) /\ (o.size > 0 /\ o.price > 0 => m > 0)
    BY <1>1
<1>3. /\ limits["BLOCKED_SYMBOLS"] = Given("BLOCKED_SYMBOLS")
      /\ limits["ALLOWED_SYMBOLS"] = Given("ALLOWED_SYMBOLS")
    BY LimitsAreGiven DEF Keys
<1>4. /\ limits["MIN_POSITION_SIZE"] = Given("MIN_POSITION_SIZE")
      /\ limits["MAX_POSITION_SIZE"] = Given("MAX_POSITION_SIZE")
      /\ limits["MAX_ORDER_NOTIONAL"] = Given("MAX_ORDER_NOTIONAL")
      /\ Given("MIN_POSITION_SIZE") \in Int /\ Given("MAX_POSITION_SIZE") \in Int
      /\ Given("MAX_ORDER_NOTIONAL") \in Int
    BY LimitsAreGiven DEF Keys, Lists
<1>. DEFINE few == Given("MIN_POSITION_SIZE")
            many == Given("MAX_POSITION_SIZE")
            dear == Given("MAX_ORDER_NOTIONAL")
            sized == o.size > 0 => /\ o.size >= few /\ o.size <= many
                                   /\ o.price > 0 /\ m <= dear
            listed == /\ o.symbol \notin Given("BLOCKED_SYMBOLS")
                      /\ Given("ALLOWED_SYMBOLS") # {} => o.symbol \in Given("ALLOWED_SYMBOLS")
            passes == /\ ~(o.size > 0 /\ o.size < few) /\ ~(o.size > 0 /\ o.size > many)
                      /\ ~(o.size > 0 /\ o.price <= 0) /\ ~(m > 0 /\ m > dear)
<1>5. Validate(o) = "PASS" <=> listed /\ passes
    BY <1>3, <1>4 DEF Validate
<1>6. Permitted(o) <=> listed /\ sized
    <2>1. o.size \in few..many <=> o.size >= few /\ o.size <= many
        BY <1>1, <1>4
    <2>. QED
        BY <2>1 DEF Permitted
<1>7. passes <=> sized
    <2>1. few \in Int /\ many \in Int /\ dear \in Int
        BY <1>4
    <2>. HIDE DEF few, many, dear, m
    <2>. QED
        BY <1>1, <1>2, <2>1
<1>. HIDE DEF passes, sized, listed
<1>. QED
    BY <1>5, <1>6, <1>7

-------------------------------------------------------------------------------
(* The captured text *)

LEMMA HeldStart ==
    ASSUME Init
    PROVE  Held
<1>1. wrote = <<>> => wrote \in Seq(Units) /\ Len(wrote) = 0
    OBVIOUS
<1>2. wrote = <<>> /\ captured = <<>> /\ warned = FALSE /\ at = "parse" /\ variant \in Variants
    BY DEF Init
<1>3. Room >= 0
    BY RiskAssumption
<1>4. /\ wrote \in Seq(Units) /\ captured = wrote
      /\ Len(captured) <= Len(wrote) /\ Len(captured) <= Room
    BY <1>1, <1>2, <1>3
<1>5. at \in Places /\ variant \in Variants /\ warned \in BOOLEAN
    BY <1>2 DEF Places
<1>. QED
    BY <1>4, <1>5 DEF Held

\* Nothing is held at the start of a gate, of an assert or of a read.
LEMMA Cleared ==
    ASSUME Clear, at' \in Places, variant' \in Variants
    PROVE  Held'
<1>1. wrote' = <<>> => wrote' \in Seq(Units) /\ Len(wrote') = 0
    OBVIOUS
<1>2. wrote' = <<>> /\ captured' = <<>> /\ warned' = FALSE
    BY DEF Clear
<1>3. Room >= 0
    BY RiskAssumption
<1>4. /\ wrote' \in Seq(Units) /\ captured' = wrote'
      /\ Len(captured') <= Len(wrote') /\ Len(captured') <= Room
    BY <1>1, <1>2, <1>3
<1>. QED
    BY <1>2, <1>4 DEF Held

LEMMA HeldStep ==
    ASSUME Held, [Next]_vars
    PROVE  Held'
<1>1. CASE EditFile
    BY <1>1 DEF EditFile, Held, gateVars
<1>2. ASSUME NEW base, Open(base)
      PROVE  Held'
    BY <1>2, Cleared DEF Open, Held, Places
<1>3. CASE ReadLine
    BY <1>3 DEF ReadLine, Held, gateVars
<1>4. CASE EndOfFile
    BY <1>4 DEF EndOfFile, Held, Places
<1>5. ASSUME NEW d \in Losses, NEW l \in Losses, CommandAssert(d, l)
      PROVE  Held'
    BY <1>5, Cleared DEF CommandAssert, Held, Places
<1>6. ASSUME NEW v \in Variants, StartGate(v)
      PROVE  Held'
    BY <1>6, Cleared DEF StartGate, Places
<1>7. ASSUME NEW us \in Chunks, Capture(us)
      PROVE  Held'
    <2>1. us \in Seq(Units)
        <3>1. PICK n \in 1..MaxChunk : us \in [1..n -> Units]
            BY DEF Chunks
        <3>2. n \in Nat
            BY RiskAssumption
        <3>. QED
            BY <3>1, <3>2
    <2>2. /\ at \in Places /\ variant \in Variants /\ warned \in BOOLEAN
          /\ wrote \in Seq(Units) /\ captured \in Seq(Units)
          /\ Len(captured) <= Len(wrote) /\ Len(captured) <= Room
          /\ (variant = "plain" /\ ~warned => captured = wrote)
        BY DEF Held
    <2>3. wrote' = wrote \o us /\ UNCHANGED <<at, variant>>
        BY <1>7 DEF Capture
    <2>4. /\ wrote' \in Seq(Units) /\ Len(wrote') = Len(wrote) + Len(us)
          /\ Len(us) \in Nat /\ Len(wrote) \in Nat /\ Len(captured) \in Nat
        BY <2>1, <2>2, <2>3
    <2>5. CASE HasRoom(us)
        <3>1. captured' = captured \o us /\ warned' = warned
            BY <1>7, <2>5 DEF Capture
        <3>2. captured' \in Seq(Units) /\ Len(captured') = Len(captured) + Len(us)
            BY <2>1, <2>2, <3>1
        <3>3. Len(captured') <= Len(wrote') /\ Len(captured') <= Room
            BY <2>2, <2>4, <2>5, <3>2, RiskAssumption DEF HasRoom
        <3>4. variant' = "plain" /\ ~warned' => captured' = wrote'
            BY <2>2, <2>3, <3>1
        <3>. QED
            BY <2>2, <2>3, <2>4, <3>1, <3>2, <3>3, <3>4 DEF Held
    <2>6. CASE ~HasRoom(us)
        <3>1. captured' = captured /\ warned' = (warned \/ variant = "plain")
            BY <1>7, <2>6 DEF Capture, Truncated
        <3>2. Len(captured') <= Len(wrote')
            BY <2>2, <2>4, <3>1
        <3>. QED
            BY <2>2, <2>3, <2>4, <3>1, <3>2 DEF Held
    <2>. QED
        BY <2>5, <2>6
<1>8. CASE EndOfOutput
    BY <1>8 DEF EndOfOutput, Held, Places
<1>9. ASSUME NEW exit \in {0, 1, 127}, Checker(exit)
      PROVE  Held'
    BY <1>9 DEF Checker, Held, Places
<1>10. CASE UNCHANGED vars
    BY <1>10 DEF vars, gateVars, Held
<1>. QED
    BY <1>1, <1>2, <1>3, <1>4, <1>5, <1>6, <1>7, <1>8, <1>9, <1>10
    DEF Next, Reload, CheckerGone

\* The plain gate passes on all that its left command wrote, or has warned that
\* it does not (execute_risk_gate_chained() of redirection.c).
THEOREM LossesAreReported == Spec => []LossIsReported
<1>1. Init => Held
    BY HeldStart
<1>2. Held /\ [Next]_vars => Held'
    BY HeldStep
<1>3. Held => LossIsReported
    BY DEF Held, LossIsReported
<1>. QED
    BY <1>1, <1>2, <1>3, PTL DEF Spec

-------------------------------------------------------------------------------
(* What the gate has said *)

\* Nothing has been judged where a gate, an assert or a read starts.
LEMMA NothingJudged ==
    ASSUME Clear, at' \in {"parse", "idle", "capture"}
    PROVE  Judged'
BY DEF Clear, Judged

\* What leaves the text, the file and the verdict alone.
LEMMA JudgedSame ==
    ASSUME Judged, UNCHANGED <<read, captured, variant, rejected>>,
           at' \in {"parse", "idle", "capture"} => at \in {"parse", "idle", "capture"},
           at' \in {"check", "passed"} => at \in {"check", "passed"}
    PROVE  Judged'
<1>1. LinesOf(captured)' = LinesOf(captured)
    BY Zenon
<1>2. Bad' = Bad /\ Fits(read)' = Fits(read)
    BY <1>1 DEF Bad, Permitted, Given, Fits
<1>. QED
    BY <1>1, <1>2 DEF Judged

LEMMA JudgedAtEnd ==
    ASSUME InForce, Held, Judged, EndOfOutput
    PROVE  Judged'
<1>. DEFINE lines == LinesOf(captured)
            bad == {o \in lines : Validate(o) # "PASS"}
<1>1. /\ at = "capture" /\ UNCHANGED <<read, captured, variant>>
      /\ IF variant = "plain" /\ bad # {}
         THEN at' = "refused" /\ rejected' = bad
         ELSE at' = "check" /\ rejected' = rejected
    BY DEF EndOfOutput, Refuses, configVars
<1>2. rejected = {} /\ ~LinesLeft
    BY <1>1 DEF Judged, InForce
<1>3. lines' = lines /\ rejected' \subseteq lines
    BY <1>1, <1>2
<1>4. Bad' = Bad /\ Fits(read)' = Fits(read)
    BY <1>1, <1>3 DEF Bad, Permitted, Given, Fits
<1>5. Fits(read) => bad = Bad
    <2>. SUFFICES ASSUME Fits(read), NEW o \in lines
                  PROVE  Validate(o) = "PASS" <=> Permitted(o)
        BY DEF Bad
    <2>1. IsLine(o)
        BY LinesAreLines DEF Held
    <2>. QED
        BY <1>2, <2>1, CheckIsPolicy
<1>. HIDE DEF lines, bad
<1>6. at' \notin {"parse", "idle", "capture"}
    BY <1>1
<1>7. Fits(read)' /\ variant' = "plain" =>
         /\ at' \in {"check", "passed"} => Bad' = {}
         /\ rejected' # {} => rejected' = Bad'
    BY <1>1, <1>2, <1>4, <1>5
<1>8. rejected' \subseteq LinesOf(captured)'
    BY <1>3 DEF lines
<1>. QED
    BY <1>6, <1>7, <1>8 DEF Judged

LEMMA JudgedStep ==
    ASSUME InForce, Held, Judged, [Next]_vars
    PROVE  Judged'
<1>1. CASE EditFile
    BY <1>1, JudgedSame DEF EditFile, configVars, gateVars
<1>2. ASSUME NEW base, Open(base)
      PROVE  Judged'
    BY <1>2, NothingJudged DEF Open
<1>3. CASE ReadLine
    BY <1>3, JudgedSame DEF ReadLine, gateVars
<1>4. CASE EndOfFile
    BY <1>4, JudgedSame DEF EndOfFile
<1>5. ASSUME NEW d \in Losses, NEW l \in Losses, CommandAssert(d, l)
      PROVE  Judged'
    BY <1>5, NothingJudged DEF CommandAssert
<1>6. ASSUME NEW v \in Variants, StartGate(v)
      PROVE  Judged'
    BY <1>6, NothingJudged DEF StartGate
<1>7. ASSUME NEW us \in Chunks, Capture(us)
      PROVE  Judged'
    <2>1. at = "capture" /\ at' = at /\ rejected' = rejected /\ rejected = {}
        BY <1>7 DEF Capture, Judged
    <2>. QED
        BY <2>1 DEF Judged
<1>8. CASE EndOfOutput
    BY <1>8, JudgedAtEnd
<1>9. ASSUME NEW exit \in {0, 1, 127}, Checker(exit)
      PROVE  Judged'
    BY <1>9, JudgedSame DEF Checker, configVars
<1>10. CASE UNCHANGED vars
    BY <1>10, JudgedSame DEF vars, configVars, gateVars
<1>. QED
    BY <1>1, <1>2, <1>3, <1>4, <1>5, <1>6, <1>7, <1>8, <1>9, <1>10
    DEF Next, Reload, CheckerGone

-------------------------------------------------------------------------------
(* What assert has said *)

\* What leaves the file and the verdict of assert alone.
LEMMA AssertedSame ==
    ASSUME Asserted, UNCHANGED <<read, asserted>>, at' = "parse" => at = "parse"
    PROVE  Asserted'
BY DEF Asserted, Fits, WithinLimits, Given

LEMMA AssertedAnew ==
    ASSUME InForce, NEW d \in Losses, NEW l \in Losses, CommandAssert(d, l)
    PROVE  Asserted'
<1>1. /\ at \in {"idle", "passed", "refused"} /\ at' = "idle"
      /\ UNCHANGED <<limits, loaded, read>>
      /\ asserted' = [drawdown |-> d, loss |-> l, passes |-> AssertPasses(d, l)]
    BY DEF CommandAssert, Resting, configVars
<1>2. ~LinesLeft /\ loaded = (read # Absent)
    BY <1>1 DEF InForce
<1>3. AssertPasses(d, l) \in BOOLEAN
    BY DEF AssertPasses
<1>4. /\ asserted'.drawdown = d /\ asserted'.loss = l
      /\ asserted'.passes = AssertPasses(d, l)
    BY <1>1
<1>5. ASSUME Fits(read)
      PROVE  AssertPasses(d, l) <=>
                read = Absent \/ (d <= Given("MAX_DRAWDOWN_PCT") /\ l <= Given("MAX_DAILY_LOSS"))
    <2>1. /\ limits["MAX_DRAWDOWN_PCT"] = Given("MAX_DRAWDOWN_PCT")
          /\ limits["MAX_DAILY_LOSS"] = Given("MAX_DAILY_LOSS")
        BY <1>2, <1>5, LimitsAreGiven DEF Keys
    <2>. QED
        BY <1>2, <2>1 DEF AssertPasses
<1>6. Fits(read)' => (asserted'.passes <=> (read' = Absent \/ WithinLimits(asserted)'))
    <2>1. Fits(read)' = Fits(read) /\ \A k : Given(k)' = Given(k)
        BY <1>1 DEF Fits, Given
    <2>2. WithinLimits(asserted)' <=>
             d <= Given("MAX_DRAWDOWN_PCT") /\ l <= Given("MAX_DAILY_LOSS")
        BY <1>4, <2>1 DEF WithinLimits
    <2>. QED
        BY <1>1, <1>4, <1>5, <2>1, <2>2
<1>7. asserted'.passes \in BOOLEAN /\ at' # "parse"
    BY <1>1, <1>3, <1>4
<1>. QED
    BY <1>6, <1>7 DEF Asserted

LEMMA AssertedStep ==
    ASSUME InForce, Asserted, [Next]_vars
    PROVE  Asserted'
<1>1. CASE EditFile
    BY <1>1, AssertedSame DEF EditFile, configVars, gateVars
<1>2. ASSUME NEW base, Open(base)
      PROVE  Asserted'
    BY <1>2 DEF Open, Asserted
<1>3. CASE ReadLine
    BY <1>3, AssertedSame DEF ReadLine, gateVars
<1>4. CASE EndOfFile
    BY <1>4, AssertedSame DEF EndOfFile
<1>5. ASSUME NEW d \in Losses, NEW l \in Losses, CommandAssert(d, l)
      PROVE  Asserted'
    BY <1>5, AssertedAnew
<1>6. ASSUME NEW v \in Variants, StartGate(v)
      PROVE  Asserted'
    BY <1>6 DEF StartGate, Asserted
<1>7. ASSUME NEW us \in Chunks, Capture(us)
      PROVE  Asserted'
    BY <1>7, AssertedSame DEF Capture, configVars
<1>8. CASE EndOfOutput
    BY <1>8, AssertedSame DEF EndOfOutput, configVars
<1>9. ASSUME NEW exit \in {0, 1, 127}, Checker(exit)
      PROVE  Asserted'
    BY <1>9, AssertedSame DEF Checker, configVars
<1>10. CASE UNCHANGED vars
    BY <1>10, AssertedSame DEF vars, configVars, gateVars
<1>. QED
    BY <1>1, <1>2, <1>3, <1>4, <1>5, <1>6, <1>7, <1>8, <1>9, <1>10
    DEF Next, Reload, CheckerGone

-------------------------------------------------------------------------------
(* The theorems *)

Inv == InForce /\ Held /\ Judged /\ Asserted

LEMMA Inductive == (Init => Inv) /\ (Inv /\ [Next]_vars => Inv')
<1>1. Init => Judged /\ Asserted
    BY DEF Init, Judged, Asserted
<1>. QED
    BY <1>1, InForceStart, HeldStart, InForceStep, HeldStep, JudgedStep, AssertedStep
    DEF Inv

\* The verdict of assert, as PolicyInForce puts it.
LEMMA AssertIsPolicy ==
    ASSUME Asserted, Fits(read)
    PROVE  asserted.passes = (read = Absent \/ asserted = NotAsserted
                                 \/ WithinLimits(asserted))
<1>1. CASE asserted = NotAsserted
    BY <1>1 DEF NotAsserted
<1>2. CASE asserted # NotAsserted
    BY <1>2 DEF Asserted
<1>. QED
    BY <1>1, <1>2

\* The file that was read last decides, whatever was read before it and in
\* whatever order it sets its limits: the plain gate lets a text through only if
\* every line of it is permitted, and otherwise refuses all of it and logs just
\* the lines that are not; assert fails just when a limit of a file is exceeded
\* (parse_config_file() and reload_risk_config() of risk_config.c, and
\* execute_risk_gate_chained() of redirection.c).
THEOREM PolicyIsInForce == Spec => []PolicyInForce
<1>1. Inv => PolicyInForce
    <2>. SUFFICES ASSUME Inv, Fits(read)
                  PROVE  /\ variant = "plain" =>
                               /\ at \in {"check", "passed"} => Bad = {}
                               /\ rejected # {} => rejected = Bad
                         /\ asserted.passes = (read = Absent \/ asserted = NotAsserted
                                                  \/ WithinLimits(asserted))
        BY DEF PolicyInForce, Bad, WithinLimits
    <2>. QED
        BY AssertIsPolicy DEF Inv, Judged
<1>. QED
    BY <1>1, Inductive, PTL DEF Spec

\* The variables are of their types, no more is captured than there is room for,
\* and every line that is logged as rejected is one of the captured text.
THEOREM TypesHold == Spec => []TypeOK
<1>1. Inv => TypeOK
    <2>. SUFFICES ASSUME Inv
                  PROVE  TypeOK
        OBVIOUS
    <2>1. /\ file \in Files \cup {Absent} /\ read \in Files \cup {Absent}
          /\ DOMAIN limits = Keys /\ loaded \in BOOLEAN
          /\ line \in 0..(IF read = Absent THEN 0 ELSE Len(read))
        BY DEF Inv, InForce
    <2>2. /\ at \in Places /\ variant \in Variants /\ warned \in BOOLEAN
          /\ Len(captured) <= Len(wrote) /\ Len(captured) <= Room
        BY DEF Inv, Held
    <2>3. /\ \A i \in DOMAIN wrote : wrote[i] \in Units
          /\ \A i \in DOMAIN captured : captured[i] \in Units
        BY DEF Inv, Held
    <2>4. \A o \in rejected : o.symbol \in Symbols \cup {Stray}
        BY LinesAreLines DEF Inv, Judged, Held, IsLine
    <2>5. asserted.passes \in BOOLEAN
        <3>1. NotAsserted.passes \in BOOLEAN
            BY DEF NotAsserted
        <3>. QED
            BY <3>1 DEF Inv, Asserted
    <2>. QED
        BY <2>1, <2>2, <2>3, <2>4, <2>5 DEF TypeOK, Places
<1>. QED
    BY <1>1, Inductive, PTL DEF Spec


===============================================================================
