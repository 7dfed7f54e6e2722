--------------------------- MODULE MCNodeLifecycle ---------------------------
(* The flash images a node may be delivered with: erased, or provisioned    *)
(* under one of the layouts.                                                *)
EXTENDS NodeLifecycle

Provisioned ==
  [Erased EXCEPT !["schema"] = 3, !["adapter"] = SERIAL_ADAPTER, !["count"] = 0,
                 !["meshKey"] = 0, !["peers"] = 0]

OldLayout ==
  [Erased EXCEPT !["schema"] = 0, !["adapter"] = PIR_ADAPTER, !["meshKey"] = 0,
                 !["oldKeypair"] = 100, !["oldEnrolled"] = 1, !["oldCount"] = 1, !["peers"] = 1]

LayoutV2 ==
  [Erased EXCEPT !["schema"] = 2, !["adapter"] = PIR_ADAPTER, !["meshKey"] = 0,
                 !["keypair"] = 100, !["enrolled"] = 1, !["count"] = 0, !["peers"] = 1,
                 !["known"] = 1, !["known2"] = 0, !["epoch"] = 3]

NewerLayout == [LayoutV2 EXCEPT !["schema"] = 4]

DevFlag == [Provisioned EXCEPT !["dev"] = 1]

AllImages == {Provisioned, OldLayout, LayoutV2, NewerLayout, DevFlag, Erased}
FreshImage == {Erased}
CurrentImage == {Provisioned}
=============================================================================
