----------------------------- MODULE MCAlarmUpload ----------------------------
(* One series with one or two sources, and two alarms: the cloud rejects the  *)
(* first, and answers 403 to the second while it knows only its start, once   *)
(* it knows its end, or never.                                                *)
EXTENDS AlarmUpload

SeriesMC == {"pm05"}
SourcesMC == {"device"}
BothSourcesMC == {"device", "demo"}
ValueMC == 0..2
BadMC == {1}
GapsMC == {{}, {<<2, FALSE>>}, {<<2, TRUE>>}}
NoGapsMC == {{}}
================================================================================
