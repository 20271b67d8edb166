--------------------------- MODULE MCAlarmNotifier ---------------------------
(* The notifier beside a runner of one preset.                              *)
EXTENDS MCPresetRunner, AlarmNotifier

=============================================================================
