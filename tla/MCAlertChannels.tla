--------------------------- MODULE MCAlertChannels ---------------------------
EXTENDS AlertChannels

LiveFirst == {<<TRUE>>, <<TRUE, FALSE>>}
DeadFirst == {<<TRUE>>, <<FALSE, TRUE>>}
=============================================================================
