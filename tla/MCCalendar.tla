----------------------------- MODULE MCCalendar -----------------------------
(* Three months of the calendar, days of the months before and after them. *)
EXTENDS Calendar

MCToday == <<2, 1>>
MCDay == {<<-1, 1>>, <<0, 1>>, <<1, 1>>, <<1, 2>>, <<2, 1>>, <<3, 1>>}
=============================================================================
