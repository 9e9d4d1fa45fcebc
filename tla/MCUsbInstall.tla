---------------------------- MODULE MCUsbInstall -----------------------------
(* UsbInstall with NSPs that end where their file does, and one whose file *)
(* ends before the last unit of its last NCA.                              *)
EXTENDS UsbInstall, MCContainers

OverUsb == <<Nca(c1, 3), Tik, [MetaNca(m1, k1, <<c1>>) EXCEPT !.size = 3]>>
NczOverUsb == <<Ncz(c2, 5), [MetaNca(m2, k2, <<c2>>) EXCEPT !.size = 2]>>
CutFile == <<Nca(c1, 3), Nca(c2, 5)>>

UsbContainers == {OverUsb, NczOverUsb, CutFile}
(* The entries one behind the other, after the directory. *)
PackedOffsets ==
  [b \in UsbContainers |->
     LET at[k \in DOMAIN b] == IF k = 1 THEN DirReads ELSE at[k - 1] + b[k - 1].size IN at]

OneKeyFile == {AllKeys}
=============================================================================
