------------------------------ MODULE Calendar ------------------------------
(* The exchange's calendar in Indian time. A day is a number, Monday being a    *)
(* multiple of seven; an instant is [day, minute]; a session is known by the    *)
(* instant it opens.                                                           *)
EXTENDS Integers, FiniteSetsExt

CONSTANTS Holidays,    \* days
          Muhurat,     \* day -> [open, close] of its special session
          HalfDays,    \* day -> its early close
          Never        \* Python's None

NormalOpen == 555      \* 09:15
NormalClose == 930     \* 15:30
ClosingStart == 940    \* 15:40
ClosingEnd == 960      \* 16:00

IsMuhurat(d) == d \in DOMAIN Muhurat
IsTradingDay(d) == IsMuhurat(d) \/ (d % 7 < 5 /\ d \notin Holidays)
OpenTime(d) == IF IsMuhurat(d) THEN Muhurat[d].open ELSE NormalOpen
CloseTime(d) ==
    IF IsMuhurat(d) THEN Muhurat[d].close
    ELSE IF d \in DOMAIN HalfDays THEN HalfDays[d] ELSE NormalClose
InClosing(m) == ClosingStart <= m /\ m < ClosingEnd

(* session_open_dt: what follows a Muhurat session belongs to it until midnight *)
SessionOpen(t) ==
    IF \/ ~IsTradingDay(t.day) \/ t.minute < OpenTime(t.day)
       \/ t.minute >= CloseTime(t.day) /\ ~IsMuhurat(t.day) /\ ~InClosing(t.minute)
    THEN Never ELSE [day |-> t.day, minute |-> OpenTime(t.day)]

=============================================================================
