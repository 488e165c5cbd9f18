SPECIFICATION Spec
PROPERTIES StartsUp Served LinkFollowsCall SignalEnds
