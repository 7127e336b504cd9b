----------------------------- MODULE MCPipeline -----------------------------
(* TLC instances of Pipeline: the device build and its configuration file.  *)
EXTENDS Pipeline

\* REG_Stage and, in the device build, REG_DeviceEngine.
AllDecorators == {"yolo", "reid", "tracker", "upload", "fcos"}
DeviceEngines == {<<"yolo", "nb">>, <<"reid", "nb">>}

Entry(n, t, p) == [name |-> n, type |-> t, position |-> p]

\* modules/config_file/models.cfg
Models == <<Entry("yolo", "nb", 0), Entry("reid", "nb", 1),
            Entry("tracker", "Stage", 2), Entry("upload", "Stage", 3)>>

ModelsOnly == {Models}

\* models.cfg and what is left of it without the last stages.
Shortened == {SubSeq(Models, 1, n) : n \in 1 .. 4}

\* Every instance is one that the theorems about Pipeline speak of.
ASSUME InstanceAssumption == Packaged
===========================================================================
