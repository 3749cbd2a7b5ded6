------------------------------ MODULE Calendar ------------------------------
(***************************************************************************)
(* The panel's date filters (frontend/src/lib/locale/jalali.ts and its two *)
(* users, the request log and the usage page). The API speaks Gregorian    *)
(* dates; what the administrator reads and types is Jalali, so a filter    *)
(* that the panel fills in itself is converted to Jalali, shown, and       *)
(* converted back when it is applied. A date is <<year, month, day>>;      *)
(* digits, padding and separators survive parsing and are left out.        *)
(***************************************************************************)
EXTENDS Integers, Sequences, FiniteSetsExt

CONSTANTS
    FirstDay,       \* the date the panel is first opened on
    Days            \* how many days it stays in use

VARIABLES
    today,          \* the browser's date, as toISOString gives it
    elapsed,        \* days since FirstDay
    asked           \* the last window: what the filter meant, what was sent

vars == <<today, elapsed, asked>>

IsLeap(y) == (y % 4 = 0 /\ y % 100 # 0) \/ y % 400 = 0

GregorianMonth(y) ==
    <<31, IF IsLeap(y) THEN 29 ELSE 28, 31, 30, 31, 30, 31, 31, 30, 31, 30, 31>>

NoDate == <<>>

-----------------------------------------------------------------------------
(* The browser's clock *)

NextDate(g) ==
    CASE g[3] < GregorianMonth(g[1])[g[2]] -> <<g[1], g[2], g[3] + 1>>
      [] g[3] = GregorianMonth(g[1])[g[2]] /\ g[2] < 12 -> <<g[1], g[2] + 1, 1>>
      [] OTHER -> <<g[1] + 1, 1, 1>>

PreviousDate(g) ==
    CASE g[3] > 1 -> <<g[1], g[2], g[3] - 1>>
      [] g[3] = 1 /\ g[2] > 1 -> <<g[1], g[2] - 1, GregorianMonth(g[1])[g[2] - 1]>>
      [] OTHER -> <<g[1] - 1, 12, 31>>

DaysBefore[n \in Nat, g \in Int \X Int \X Int] ==
    IF n = 0 THEN g ELSE DaysBefore[n - 1, PreviousDate(g)]

-----------------------------------------------------------------------------
(* Conversions *)

\* Days of a common year before each month.
DaysBeforeMonth == <<0, 31, 59, 90, 120, 151, 181, 212, 243, 273, 304, 334>>

\* The day of the year becomes month and day; past the 186 days of the six
\* long months the count starts from zero again, with months of 31 days.
ToJalali(g) ==
    LET early == g[1] <= 1600
        gy    == g[1] - (IF early THEN 621 ELSE 1600)
        gy2   == IF g[2] > 2 THEN gy + 1 ELSE gy
        d0    == (365 * gy) + ((gy2 + 3) \div 4) - ((gy2 + 99) \div 100)
                 + ((gy2 + 399) \div 400) - 80 + g[3] + DaysBeforeMonth[g[2]]
        d1    == d0 % 12053
        d2    == d1 % 1461
        d3    == IF d2 > 365 THEN (d2 - 1) % 365 ELSE d2
        d4    == IF d3 < 186 THEN d3 ELSE d3 - 186
    IN  << (IF early THEN 0 ELSE 979) + (33 * (d0 \div 12053))
             + (4 * (d1 \div 1461)) + ((d2 - 1) \div 365),
           1 + (d4 \div 31),
           1 + (d4 % 31) >>

\* The n-th day (from 1) of a Gregorian year as a date.
DayOfYear(gy, n) ==
    LET Before(m) == DaysBeforeMonth[m] + (IF m > 2 /\ IsLeap(gy) THEN 1 ELSE 0)
        gm        == Max({m \in 1 .. 12 : Before(m) < n})
    IN  <<gy, gm, n - Before(gm)>>

ToGregorian(j) ==
    LET early == j[1] <= 979
        jy    == j[1] - (IF early THEN 0 ELSE 979)
        d0    == (365 * jy) + ((jy \div 33) * 8) + (((jy % 33) + 3) \div 4) + 78 + j[3]
                 + (IF j[2] < 7 THEN (j[2] - 1) * 31 ELSE ((j[2] - 7) * 30) + 186)
        d1    == d0 % 146097
        late  == d1 > 36524             \* past the leap century
        r     == (d1 - 1) % 36524
        d2    == CASE late /\ r >= 365 -> r + 1
                   [] late /\ r < 365  -> r
                   [] OTHER            -> d1
        d3    == d2 % 1461
        gy    == (IF early THEN 621 ELSE 1600) + (400 * (d0 \div 146097))
                 + (IF late THEN 100 * ((d1 - 1) \div 36524) ELSE 0)
                 + (4 * (d2 \div 1461))
    IN  IF d3 > 365
        THEN DayOfYear(gy + ((d3 - 1) \div 365), ((d3 - 1) % 365) + 1)
        ELSE DayOfYear(gy, d3 + 1)

\* Month and day are checked against 12 and 31, not against the month.
ParseJalaliInput(j) ==
    IF j[2] \in 1 .. 12 /\ j[3] \in 1 .. 31 THEN ToGregorian(j) ELSE NoDate

ToJalaliInput(g) == ToJalali(g)

-----------------------------------------------------------------------------
(* Pages *)

\* What a filter filled in with the last n days means, and what it sends.
Window(n) ==
    LET from == DaysBefore[n - 1, today]
    IN  [meant |-> <<from, today>>,
         sent  |-> <<ParseJalaliInput(ToJalaliInput(from)),
                     ParseJalaliInput(ToJalaliInput(today))>>]

Init ==
    /\ today = FirstDay
    /\ elapsed = 0
    /\ asked = [meant |-> <<>>, sent |-> <<>>]

\* The request log opens with the last seven days applied.
OpenRequestLogs ==
    /\ asked' = Window(7)
    /\ UNCHANGED <<today, elapsed>>

\* The usage page: a preset of 1, 7, 30 or 90 days, applied.
ApplyPreset ==
    /\ \E n \in {1, 7, 30, 90} : asked' = Window(n)
    /\ UNCHANGED <<today, elapsed>>

Midnight ==
    /\ elapsed < Days
    /\ elapsed' = elapsed + 1
    /\ today' = NextDate(today)
    /\ UNCHANGED asked

Next == OpenRequestLogs \/ ApplyPreset \/ Midnight

Spec == Init /\ [][Next]_vars

-----------------------------------------------------------------------------
\* A date the panel converts to Jalali and back is the date it was: the
\* window the API is asked for is the window the filter stands for. The
\* test of the conversions says so of them ("round-trips Gregorian and
\* Jalali dates", test/usage-page.test.tsx:294).
RoundTrips == asked.sent = asked.meant
=============================================================================
