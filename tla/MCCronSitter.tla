----------------------------- MODULE MCCronSitter -----------------------------
(* Igniters for the scheduler of a service, after those of basesystem/.    *)
EXTENDS CronSitter

any == [pieces |-> <<Star>>, seps |-> <<>>]
only(x) == [pieces |-> <<x>>, seps |-> <<>>]
every(x) == [pieces |-> <<Star, x>>, seps |-> <<"slash">>]
between(x, y) == [pieces |-> <<x, y>>, seps |-> <<"dash">>]
oneOf(x, y) == [pieces |-> <<x, y>>, seps |-> <<"comma">>]

entry(m, h, job) == [fields |-> <<m, h, any, any, any>>, job |-> job]

Hourly == entry(only(0), every(1), "reload")
Evens == entry(every(2), any, "backup")
Noon == entry(oneOf(58, 0), between(11, 12), "dump")
Always == entry(any, any, "beat")
EveryMinute == entry(every(1), any, "poll")
WorkHour == entry(any, only(12), "sync")

MCSchedules == {<<>>, <<Evens, Noon, Always>>, <<Hourly, Evens>>, <<EveryMinute, Noon, Hourly>>}
CronFinding == {<<WorkHour, Hourly>>}
=============================================================================
