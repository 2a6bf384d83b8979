----------------------------- MODULE MCImuLink -----------------------------
(* One client of the IMU service.                                          *)
EXTENDS ImuLink

CONSTANT turn

OneClient == {turn}
=============================================================================
