----------------------------- MODULE MCDeviceMesh ------------------------------
(* Small instances of the mesh: two sockets of one session and one of      *)
(* another.                                                                *)
EXTENDS DeviceMesh

CONSTANTS s1, s2, s3, laptop, phone, p1, p2

TabsOf == [s \in {s1, s2, s3} |-> IF s = s3 THEN phone ELSE laptop]
=============================================================================
