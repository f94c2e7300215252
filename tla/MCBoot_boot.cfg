\* Any number of boots with two extensions and two bundles to install.
CONSTANTS
    Extensions = 2
    Bundles = 2
SPECIFICATION FairSpec
INVARIANTS ServesComplete CleanStop
PROPERTIES FailsForLeftOvers SpoiltStaysDown StopObeyed
