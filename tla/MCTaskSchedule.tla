--------------------------- MODULE MCTaskSchedule ---------------------------
(* Schedules for TLC: two minutes an hour, two hours a day.                 *)
EXTENDS TaskSchedule

MCLimits == << <<1, 2>>, <<0, 1>>, <<1, 2>>, <<1, 1>>, <<0, 1>> >>

Item(base, from, to, slashes, step) ==
  [base |-> base, from |-> from, to |-> to, slashes |-> slashes, step |-> step]
Star  == <<Item("star", 0, 0, 0, 0)>>
At(n) == <<Item("value", n, 0, 0, 0)>>

Cron(minute, hour, day) == [interval |-> 0, cron |-> <<minute, hour, day, Star, Star>>]
EveryTicks(n)           == [interval |-> n, cron |-> Blank]

\* "* * *", "1-2/2,2 1 *" (both minutes of hour 1) and "1/2 * 2" (minute 1 only).
Good == {Cron(Star, Star, Star),
         Cron(<<Item("range", 1, 2, 1, 2), Item("value", 2, 0, 0, 0)>>, At(1), Star),
         Cron(<<Item("value", 1, 0, 1, 2)>>, Star, At(2))}

\* An interval below the minimum comes from an old state file; PUT refuses it,
\* and "2-1".
MCStored    == Good \cup {EveryTicks(1)}
MCRequested == {Cron(Star, Star, Star), EveryTicks(3), EveryTicks(1),
                Cron(Star, <<Item("range", 2, 1, 0, 0)>>, Star)}
=============================================================================
