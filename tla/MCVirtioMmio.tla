----------------------------- MODULE MCVirtioMmio -----------------------------
EXTENDS VirtioMmio

(* Selecting one queue that does not exist is like selecting another. *)
View ==
  <<device_status, driver_features, driver_features_select,
    IF queue_select \in Qs THEN queue_select ELSE NumQueues,
    queues, config_space, interrupt_status, activations>>
================================================================================
